---- MODULE Spec2Model ----
(***************************************************************************)
(* The in-memory metadata cache (app/utils/cache.py) and the connection    *)
(* pool (app/utils/connection_pool.py) of the Salesforce MCP server, as a  *)
(* state machine of threads that call their operations.                    *)
(*                                                                         *)
(* Every thread has a call stack.  A method whose whole body runs under    *)
(* the structure's re-entrant lock (`with self._lock`) is one step, taken  *)
(* when the lock can be acquired.  A method is split where the code leaves *)
(* room for another step: between the read and the write of a counter      *)
(* (`+= 1`), and around the code of the caller that it runs, the function  *)
(* wrapped by `cached` and the connection factory of get_connection, which *)
(* may call back into the cache or the pool, return or raise.              *)
(*                                                                         *)
(* Time is the integer clock `now` (time.time()); TTLs, ages and sizes are *)
(* scaled down to small numbers, their order kept.                         *)
(***************************************************************************)
EXTENDS Integers, Sequences, FiniteSets, TLC

\* ----------------------------------------------------------------- bounds
\* GlobalCache.MAX_SIZE is 1000 in the source; the model keeps the code's
\* comparison against it and scales the number.
MAX_SIZE == 3
\* ConnectionPool.MAX_CONNECTIONS (10), MAX_AGE (3600 s) and MAX_IDLE (300 s),
\* scaled the same way.
MAX_CONNECTIONS == 2
MAX_AGE == 2
MAX_IDLE == 1
\* Calls one behaviour makes, the last clock value and the deepest call stack.
MaxCalls == 5
MaxTime == 3
MaxDepth == 2
\* The number of report descriptions analyze_field_usage stores (50 in the
\* source), scaled.
REPORT_LIMIT == 1
\* The number of records in the result of a metadata query.
MaxRecords == 2
\* debugging._CACHE_TTL (300 seconds in the source), scaled.
CACHE_TTL == 2
\* The length of the strings given to escape_soql_string.
MaxLen == 3
\* The length of the lists given to chunk_large_response.
MaxItems == 13

VARIABLES
    now,          \* time.time()
    cache,        \* GlobalCache._cache: category -> ordered dict (a sequence of entries)
    stats,        \* GlobalCache._stats
    lock,         \* GlobalCache._lock (threading.RLock): owner and recursion count
    connections,  \* ConnectionPool._connections: ordered dict (a sequence of ConnectionInfo)
    pstats,       \* ConnectionPool._stats
    plock,        \* ConnectionPool._lock (threading.RLock)
    stack,        \* per thread: the frames of the calls in progress, innermost last
    last,         \* per thread: what its last completed top-level call returned
    prev,         \* per thread: history, the record of the call before that one
    calls,        \* number of calls made so far (bounds the behaviour)
    seq,          \* history: a stamp per cache access (set or successful get)
    gets,         \* history: get calls that returned from the hit / the miss branch
    nextHandle,   \* the next session handle a connection factory creates
    fails,        \* history: failed releases per identity since its entry was registered
    scope,        \* the inputs the environment of this specification draws from
    metadata,     \* debugging._metadata_cache: key -> (data, time of the fetch)
    global_pool   \* connection_pool._global_pool, with the pools made and the resets

cacheVars == <<cache, stats, lock, seq, gets>>
poolVars == <<connections, pstats, plock, nextHandle, fails>>
vars == <<now, cache, stats, lock, connections, pstats, plock, stack, last,
          prev, calls, seq, gets, nextHandle, fails, scope, metadata, global_pool>>

\* ------------------------------------------------------------ the inputs
None == "None"
\* A result that is not None and that Python takes for false (0, "", []).
Falsy == ""
NoThread == "nobody"
T1 == "t1"
T2 == "t2"
Threads == {T1, T2}

\* Keys and glob patterns are strings, modelled as tuples of characters.
KA1 == <<"a", "1">>
KA2 == <<"a", "2">>
KB1 == <<"b", "1">>
KB2 == <<"b", "2">>
PAStar == <<"a", "*">>
PStar == <<"*">>

\* The identities (user_id) under which connections are pooled.
U1 == "u1"
U2 == "u2"
U3 == "u3"
Users == {U1, U2, U3}

NoResult == [op |-> "none"]

\* ------------------------------------------------------------- the locks
FreeLock == [owner |-> NoThread, count |-> 0]

\* threading.RLock.acquire does not block when the lock is free or when the
\* calling thread owns it.
CanAcquireOpen(l, t) == TRUE

CanAcquirePlain(l, t) == l.owner = NoThread

CanAcquire(l, t) == l.owner \in {NoThread, t}

Acquire(l, t) == [owner |-> t, count |-> l.count + 1]

Release(l) ==
    IF l.count <= 1 THEN FreeLock ELSE [l EXCEPT !.count = @ - 1]

\* ------------------------------------------------- ordered dictionaries
\* collections.OrderedDict as a sequence of records with a `key` field.
Keys(od) == {od[i].key : i \in 1..Len(od)}

Has(od, k) == k \in Keys(od)

Lookup(od, k) == od[CHOOSE i \in 1..Len(od) : od[i].key = k]

\* del od[k]
Del(od, k) == SelectSeq(od, LAMBDA e : e.key # k)

\* od.move_to_end(k)
MoveToEnd(od, k) == Append(Del(od, k), Lookup(od, k))

\* od[k] = e: a present key keeps its position, a new key goes last.
Put(od, e) ==
    IF Has(od, e.key)
    THEN [i \in 1..Len(od) |-> IF od[i].key = e.key THEN e ELSE od[i]]
    ELSE Append(od, e)

\* ------------------------------------------------------------ CacheEntry
\* CacheEntry.is_expired
IsExpiredEarly(e, t) == t - e.created_at >= e.ttl

IsExpired(e, t) == t - e.created_at > e.ttl

\* CacheEntry.touch
Touch(e) == [e EXCEPT !.hits = @ + 1]

\* GlobalCache.DEFAULT_TTL, in scaled seconds (60 -> 1, 300 -> 2, 600 -> 3).
DEFAULT_TTL(category) ==
    CASE category = "query_results" -> 1
      [] category = "validation_rules" -> 2
      [] category = "object_metadata" -> 3
      [] OTHER -> 2

\* The ttl argument of set and cached: <<>> is None, <<t>> is t.
TtlOf(category, ttl) == IF ttl = <<>> THEN DEFAULT_TTL(category) ELSE ttl[1]

\* GlobalCache._get_category_cache: the category's dict, created when missing.
CategoryCache(category) ==
    IF category \in DOMAIN cache THEN cache[category] ELSE <<>>

WithCategory(category, od) ==
    [c \in DOMAIN cache \cup {category} |-> IF c = category THEN od ELSE cache[c]]

\* fnmatch.fnmatch(name, pat) on a case-sensitive platform: `*` matches any run
\* of characters, `?` any one character, every other character itself.
RECURSIVE Fnmatch(_, _)
FnmatchLiteral(name, pat) == name = pat

Fnmatch(name, pat) ==
    IF pat = <<>> THEN name = <<>>
    ELSE IF Head(pat) = "*"
         THEN \/ Fnmatch(name, Tail(pat))
              \/ name # <<>> /\ Fnmatch(Tail(name), pat)
    ELSE IF name = <<>> THEN FALSE
    ELSE /\ Head(pat) = "?" \/ Head(pat) = Head(name)
         /\ Fnmatch(Tail(name), Tail(pat))

\* The eviction loop's condition in set: `while len(cache) >= self.MAX_SIZE`.
AtCapacityLate(od) == Len(od) > MAX_SIZE

AtCapacity(od) == Len(od) >= MAX_SIZE

\* The eviction loop of set: the first key goes while the dict is at capacity.
RECURSIVE EvictOldest(_)
EvictOldest(od) ==
    IF AtCapacity(od) /\ od # <<>> THEN EvictOldest(Tail(od)) ELSE od

\* --------------------------------------------------------- call stacks
Top(stk) == stk[Len(stk)]

Rest(stk) == SubSeq(stk, 1, Len(stk) - 1)

\* The thread runs the function wrapped by `cached` (its frame is the innermost).
InFunc(t) ==
    stack[t] # <<>> /\ Top(stack[t]).op = "cached" /\ Top(stack[t]).pc = "func"

\* The thread runs the connection factory handed to get_connection.
InFactory(t) ==
    stack[t] # <<>> /\ Top(stack[t]).op = "get_connection"
                    /\ Top(stack[t]).pc = "factory"

\* A cache operation is called by an idle thread or from inside a wrapped
\* function, when the cache's lock can be taken.
MayCallCache(t) ==
    /\ t \in scope.threads
    /\ calls < scope.calls
    /\ Len(stack[t]) < scope.depth
    /\ stack[t] = <<>> \/ InFunc(t)
    /\ CanAcquire(lock, t)

\* The record a thread's caller keeps of the call before the last one; it is
\* kept only in the specifications whose claims speak of two calls in a row.
Shift(r) == IF scope.track THEN r ELSE NoResult

\* The frame of a wrapped function or factory that makes a call notes it.
Marked(stk) ==
    IF stk = <<>> THEN stk ELSE Rest(stk) \o <<[Top(stk) EXCEPT !.nested = TRUE]>>

\* A call that stays on the stack begins: a top-level call forgets the result
\* of the previous one.
Begin(t, frames) ==
    /\ stack' = [stack EXCEPT ![t] = Marked(@) \o frames]
    /\ last' = [last EXCEPT ![t] = NoResult]
    /\ prev' = IF stack[t] = <<>> THEN [prev EXCEPT ![t] = Shift(last[t])] ELSE prev
    /\ calls' = calls + 1

\* A call on the stack returns `rec` to what is below it: to the thread's caller
\* when the stack is empty, to the wrapped function or factory that made the
\* call otherwise.
Return(t, rest, rec) ==
    /\ stack' = [stack EXCEPT ![t] = rest]
    /\ last' = [last EXCEPT ![t] = IF rest = <<>> THEN rec ELSE NoResult]
    /\ prev' = prev

\* A call that begins and returns in one step.
Atomic(t, rec) ==
    /\ stack' = [stack EXCEPT ![t] = Marked(@)]
    /\ last' = [last EXCEPT ![t] = IF stack[t] = <<>> THEN rec ELSE NoResult]
    /\ prev' = IF stack[t] = <<>> THEN [prev EXCEPT ![t] = Shift(last[t])] ELSE prev
    /\ calls' = calls + 1

\* ------------------------------------------------------ GlobalCache.get
\* The body of get up to the read of the counter it is about to increment:
\* entry absent, entry expired (deleted), or a hit (moved to the end, touched).
\* `found` and `time` keep what the lookup saw, for the record of the call.
GetFrame(category, key) ==
    LET od == CategoryCache(category)
        present == Has(od, key)
        entry == Lookup(od, key)
        base == [op |-> "get", pc |-> "count", cat |-> category, key |-> key,
                 ret |-> None, which |-> "misses", tmp |-> stats.misses,
                 found |-> IF present THEN <<entry>> ELSE <<>>, time |-> now]
    IN  IF present /\ ~IsExpired(entry, now)
        THEN [base EXCEPT !.ret = entry.value, !.which = "hits",
                          !.tmp = stats.hits]
        ELSE base

CacheAfterLookup(category, key) ==
    LET od == CategoryCache(category)
        entry == Lookup(od, key)
    IN  IF ~Has(od, key) THEN WithCategory(category, od)
        ELSE IF IsExpired(entry, now)
        THEN WithCategory(category, Del(od, key))
        ELSE WithCategory(category,
                 Put(MoveToEnd(od, key), [Touch(entry) EXCEPT !.used = seq + 1]))

IsHit(category, key) ==
    /\ Has(CategoryCache(category), key)
    /\ ~IsExpired(Lookup(CategoryCache(category), key), now)

CallGet(t, category, key) ==
    /\ MayCallCache(t)
    /\ lock' = Acquire(lock, t)
    /\ cache' = CacheAfterLookup(category, key)
    /\ seq' = IF IsHit(category, key) THEN seq + 1 ELSE seq
    /\ Begin(t, <<GetFrame(category, key)>>)
    /\ UNCHANGED <<now, stats, gets, poolVars, scope, metadata, global_pool>>

\* `if cached_value is not None` in the wrapper of `cached`.
IsCachedValueTruthy(v) == v \notin {None, Falsy}

IsCachedValue(v) == v # None

GetRecord(f) ==
    [op |-> "get", cat |-> f.cat, key |-> f.key, ret |-> f.ret,
     hit |-> f.which = "hits", found |-> f.found, time |-> f.time]

CachedRecord(m, ret, invoked, found, time) ==
    [op |-> "cached", cat |-> m.cat, key |-> m.key, ttl |-> m.ttl, ret |-> ret,
     invoked |-> invoked, raised |-> FALSE, thrown |-> None, exc |-> None,
     nested |-> m.nested, found |-> found, time |-> time, done |-> now]

\* The counter is written, the lock released and the value returned.  When the
\* caller is the wrapper of `cached`, the wrapper returns a cached value at once
\* and goes on to the wrapped function otherwise.
GetCount(t) ==
    /\ stack[t] # <<>>
    /\ Top(stack[t]).op = "get"
    /\ LET f == Top(stack[t])
           rest == Rest(stack[t])
           wrapped == rest # <<>> /\ Top(rest).op = "cached"
                                  /\ Top(rest).pc = "get"
       IN  /\ stats' = [stats EXCEPT ![f.which] = f.tmp + 1]
           /\ gets' = IF f.which = "hits"
                      THEN [gets EXCEPT !.hit = @ + 1]
                      ELSE [gets EXCEPT !.miss = @ + 1]
           /\ IF ~wrapped
              THEN Return(t, rest, GetRecord(f))
              ELSE IF IsCachedValue(f.ret)
              THEN Return(t, Rest(rest),
                          CachedRecord(Top(rest), f.ret, FALSE, f.found, f.time))
              ELSE /\ stack' = [stack EXCEPT ![t] = Rest(rest) \o
                         <<[Top(rest) EXCEPT !.pc = "func", !.found = f.found,
                                             !.time = f.time]>>]
                   /\ UNCHANGED <<last, prev>>
    /\ lock' = Release(lock)
    /\ UNCHANGED <<now, cache, seq, calls, poolVars, scope, metadata, global_pool>>

\* ------------------------------------------------------ GlobalCache.set
NewEntry(category, key, value, ttl) ==
    [key |-> key, value |-> value, created_at |-> now,
     ttl |-> TtlOf(category, ttl), hits |-> 0, used |-> seq + 1]

\* The body of set: evict while at capacity, then store the entry.
Evicted(category) ==
    Len(CategoryCache(category)) - Len(EvictOldest(CategoryCache(category)))

SetEffect(category, key, value, ttl) ==
    /\ cache' = WithCategory(category,
           Put(EvictOldest(CategoryCache(category)),
               NewEntry(category, key, value, ttl)))
    /\ stats' = [stats EXCEPT !.evictions = @ + Evicted(category)]
    /\ seq' = seq + 1

Set(t, category, key, value, ttl) ==
    /\ MayCallCache(t)
    /\ SetEffect(category, key, value, ttl)
    /\ Atomic(t, [op |-> "set", cat |-> category, key |-> key, val |-> value,
                   ttl |-> ttl, time |-> now, evicted |-> Evicted(category)])
    /\ UNCHANGED <<now, lock, gets, poolVars, scope, metadata, global_pool>>

\* --------------------------------------------------- GlobalCache.delete
Delete(t, category, key) ==
    /\ MayCallCache(t)
    /\ cache' = WithCategory(category, Del(CategoryCache(category), key))
    /\ Atomic(t, [op |-> "delete", cat |-> category, key |-> key,
                   ret |-> Has(CategoryCache(category), key)])
    /\ UNCHANGED <<now, stats, lock, seq, gets, poolVars, scope, metadata, global_pool>>

\* ------------------------------------------- GlobalCache.clear_category
\* A category that was never created stays absent and counts 0.
ClearCategory(t, category) ==
    /\ MayCallCache(t)
    /\ cache' = IF category \in DOMAIN cache
                THEN [cache EXCEPT ![category] = <<>>]
                ELSE cache
    /\ Atomic(t, [op |-> "clear_category", cat |-> category,
                   ret |-> Len(CategoryCache(category))])
    /\ UNCHANGED <<now, stats, lock, seq, gets, poolVars, scope, metadata, global_pool>>

\* ------------------------------------------------ GlobalCache.clear_all
RECURSIVE SumLen(_, _)
SumLen(f, S) ==
    IF S = {} THEN 0
    ELSE LET c == CHOOSE x \in S : TRUE
         IN  Len(f[c]) + SumLen(f, S \ {c})

TotalEntries == SumLen(cache, DOMAIN cache)

\* Every category is dropped and the three counters restart at 0.
ClearAll(t) ==
    /\ MayCallCache(t)
    /\ cache' = <<>>
    /\ stats' = [hits |-> 0, misses |-> 0, evictions |-> 0]
    /\ gets' = [hit |-> 0, miss |-> 0]
    /\ Atomic(t, [op |-> "clear_all", ret |-> TotalEntries])
    /\ UNCHANGED <<now, lock, seq, poolVars, scope, metadata, global_pool>>

\* --------------------------------------- GlobalCache.invalidate_pattern
\* keys_to_delete, then `del cache[key]` for each of them.
InvalidatePattern(t, category, pattern) ==
    /\ MayCallCache(t)
    /\ LET od == CategoryCache(category)
           kept == SelectSeq(od, LAMBDA e : ~Fnmatch(e.key, pattern))
       IN  /\ cache' = WithCategory(category, kept)
           /\ Atomic(t, [op |-> "invalidate_pattern", cat |-> category,
                          pat |-> pattern, ret |-> Len(od) - Len(kept)])
    /\ UNCHANGED <<now, stats, lock, seq, gets, poolVars, scope, metadata, global_pool>>

\* ------------------------------------------ GlobalCache.cleanup_expired
CleanupExpired(t) ==
    /\ MayCallCache(t)
    /\ LET swept == [c \in DOMAIN cache |->
                        SelectSeq(cache[c], LAMBDA e : ~IsExpired(e, now))]
       IN  /\ cache' = swept
           /\ Atomic(t, [op |-> "cleanup_expired",
                          ret |-> TotalEntries - SumLen(swept, DOMAIN swept)])
    /\ UNCHANGED <<now, stats, lock, seq, gets, poolVars, scope, metadata, global_pool>>

\* ---------------------------------------------------------------- cached
\* A call of a function decorated with `cached`: the wrapper computes the key
\* and calls cache.get.
CallCached(t, category, key, ttl) ==
    /\ MayCallCache(t)
    /\ lock' = Acquire(lock, t)
    /\ cache' = CacheAfterLookup(category, key)
    /\ seq' = IF IsHit(category, key) THEN seq + 1 ELSE seq
    /\ Begin(t, <<[op |-> "cached", pc |-> "get", cat |-> category,
                   key |-> key, ttl |-> ttl, nested |-> FALSE,
                   found |-> <<>>, time |-> 0],
                  GetFrame(category, key)>>)
    /\ UNCHANGED <<now, stats, gets, poolVars, scope, metadata, global_pool>>

\* The wrapped function returns `result`; the wrapper stores it with cache.set
\* and returns it.
FuncReturn(t, result) ==
    /\ InFunc(t)
    /\ CanAcquire(lock, t)
    /\ LET m == Top(stack[t])
       IN  /\ SetEffect(m.cat, m.key, result, m.ttl)
           /\ Return(t, Rest(stack[t]),
                     CachedRecord(m, result, TRUE, m.found, m.time))
    /\ UNCHANGED <<now, lock, gets, calls, poolVars, scope, metadata, global_pool>>

\* What the wrapper's caller sees when the wrapped function raises `e`, and the
\* cache the wrapper leaves: it has no handler, so `e` itself and no store.
RaisedToCaller(e) == e

CacheOnRaiseStored(m) ==
    WithCategory(m.cat, Put(CategoryCache(m.cat),
        [key |-> m.key, value |-> None, created_at |-> now,
         ttl |-> TtlOf(m.cat, m.ttl), hits |-> 0, used |-> seq]))

CacheOnRaise(m) == cache

\* The wrapped function raises `e`: the wrapper's frame is unwound.  A wrapped
\* function that made the call is handed the exception and goes on (it may
\* handle it, or raise in turn).
FuncRaise(t, e) ==
    /\ InFunc(t)
    /\ LET m == Top(stack[t])
       IN  /\ cache' = CacheOnRaise(m)
           /\ Return(t, Rest(stack[t]),
                     [CachedRecord(m, None, TRUE, m.found, m.time)
                         EXCEPT !.raised = TRUE, !.thrown = e,
                                !.exc = RaisedToCaller(e)])
    /\ UNCHANGED <<now, stats, lock, seq, gets, calls, poolVars, scope,
                   metadata, global_pool>>

\* -------------------------------------------------------- ConnectionInfo
\* Session handles are numbers: 0 is no connection (None, or a factory result
\* that Python takes for false), every created connection has a fresh handle.
NoConnection == 0

AVAILABLE == "available"
IN_USE == "in_use"
STALE == "stale"
FAILED == "failed"

\* ConnectionInfo.is_stale and is_idle, called with the pool's max_age and max_idle.
IsStaleSinceUse(c, t) == t - c.last_used > MAX_AGE

IsStale(c, t) == t - c.created_at > MAX_AGE

IsIdle(c, t) == t - c.last_used > MAX_IDLE

\* ConnectionInfo.touch
ConnTouch(c) == [c EXCEPT !.last_used = now, !.use_count = @ + 1]

\* ConnectionInfo.mark_error: the third error makes the connection FAILED.
MarkErrorLate(c, msg) ==
    [c EXCEPT !.error_count = @ + 1, !.last_error = msg,
              !.state = IF c.error_count + 1 > 3 THEN FAILED ELSE @]

MarkError(c, msg) ==
    [c EXCEPT !.error_count = @ + 1, !.last_error = msg,
              !.state = IF c.error_count + 1 >= 3 THEN FAILED ELSE @]

\* ConnectionPool._is_connection_usable (the STALE mark it leaves is on an entry
\* that get_connection deletes at once).
IsConnectionUsableAnyState(c, t) == ~IsStale(c, t)

IsConnectionUsable(c, t) == c.state # FAILED /\ ~IsStale(c, t)

\* The ConnectionInfo that _add_connection builds.  `born` is history: the
\* handle the entry was registered with, which numbers the registrations.
NewConnection(user_id, connection, instance_url) ==
    [key |-> user_id, connection |-> connection, instance_url |-> instance_url,
     created_at |-> now, last_used |-> now, state |-> IN_USE, use_count |-> 0,
     error_count |-> 0, last_error |-> None, born |-> connection]

\* The eviction loop of _add_connection.
RECURSIVE EvictOldestConnection(_)
EvictNewestConnection(od) ==
    IF Len(od) >= MAX_CONNECTIONS /\ od # <<>>
    THEN SubSeq(od, 1, MAX_CONNECTIONS - 1)
    ELSE od

EvictOldestConnectionLate(od) ==
    IF Len(od) > MAX_CONNECTIONS THEN Tail(od) ELSE od

EvictOldestConnection(od) ==
    IF Len(od) >= MAX_CONNECTIONS /\ od # <<>>
    THEN EvictOldestConnection(Tail(od))
    ELSE od

\* The body of _add_connection: evict while at capacity, then register.
AddEffect(user_id, connection, instance_url) ==
    /\ connections' = Put(EvictOldestConnection(connections),
                          NewConnection(user_id, connection, instance_url))
    /\ fails' = [fails EXCEPT ![user_id] = 0]

\* A pool operation is called by an idle thread or from inside a connection
\* factory, when the pool's lock can be taken.
MayCallPool(t) ==
    /\ t \in scope.threads
    /\ calls < scope.calls
    /\ Len(stack[t]) < scope.depth
    /\ stack[t] = <<>> \/ InFactory(t)
    /\ CanAcquire(plock, t)

\* ------------------------------------------ ConnectionPool.get_connection
\* What a call of get_connection returned, with what it found registered, the
\* first handle not yet created when it was made, how often it called the
\* factory and the exception it let through to its caller.
GetConnectionRecord(f, factory, ret) ==
    [op |-> "get_connection", uid |-> f.uid, factory |-> factory,
     found |-> f.found, time |-> f.time, next |-> f.next, ret |-> ret,
     nested |-> f.nested, raised |-> FALSE, exc |-> None,
     invoked |-> f.invoked, size |-> Len(connections)]

\* get_connection up to the call of the factory: a usable entry is touched and
\* handed out; an entry that is not usable is deleted; without a factory the
\* call returns None.  With a factory the call goes on, holding the lock.
CallGetConnection(t, user_id, withFactory) ==
    LET present == Has(connections, user_id)
        c == Lookup(connections, user_id)
        f == [op |-> "get_connection", pc |-> "factory", uid |-> user_id,
              found |-> IF present THEN <<c>> ELSE <<>>, time |-> now,
              next |-> nextHandle, conn |-> NoConnection, nested |-> FALSE,
              invoked |-> 0]
    IN  /\ MayCallPool(t)
        /\ IF present /\ IsConnectionUsable(c, now)
           THEN /\ connections' = Put(connections,
                                      [ConnTouch(c) EXCEPT !.state = IN_USE])
                /\ pstats' = [pstats EXCEPT !.total_requests = @ + 1,
                                            !.cache_hits = @ + 1]
                /\ plock' = plock
                /\ Atomic(t, GetConnectionRecord(f, withFactory, c.connection))
           ELSE /\ connections' = Del(connections, user_id)
                /\ pstats' = [pstats EXCEPT !.total_requests = @ + 1,
                                            !.cache_misses = @ + 1]
                /\ IF withFactory
                   THEN /\ plock' = Acquire(plock, t)
                        /\ Begin(t, <<[f EXCEPT !.invoked = 1]>>)
                   ELSE /\ plock' = plock
                        /\ Atomic(t, GetConnectionRecord(f, FALSE, NoConnection))
        /\ UNCHANGED <<now, cacheVars, nextHandle, fails, scope, metadata, global_pool>>

\* The factory returns: a connection, which get_connection goes on to register
\* with _add_connection, or a result that is false, for which it returns None.
FactoryReturn(t, created) ==
    /\ InFactory(t)
    /\ LET f == Top(stack[t])
       IN  IF created
           THEN /\ stack' = [stack EXCEPT ![t] = Rest(@) \o
                      <<[f EXCEPT !.pc = "add", !.conn = nextHandle]>>]
                /\ nextHandle' = nextHandle + 1
                /\ UNCHANGED <<plock, last, prev>>
           ELSE /\ plock' = Release(plock)
                /\ nextHandle' = nextHandle
                /\ Return(t, Rest(stack[t]),
                          GetConnectionRecord(f, TRUE, NoConnection))
    /\ UNCHANGED <<now, cacheVars, connections, pstats, fails, calls, scope,
                   metadata, global_pool>>

\* What the caller of get_connection sees of an exception `e` of the factory:
\* `except Exception` catches it, the call returns None.
FactoryErrorPropagated(e) == e

FactoryErrorToCaller(e) == None

\* The factory raises: get_connection counts an error and returns None.
FactoryRaise(t) ==
    /\ InFactory(t)
    /\ LET f == Top(stack[t])
       IN  Return(t, Rest(stack[t]),
                  [GetConnectionRecord(f, TRUE, NoConnection)
                      EXCEPT !.raised = TRUE,
                             !.exc = FactoryErrorToCaller("E1")])
    /\ pstats' = [pstats EXCEPT !.errors = @ + 1]
    /\ plock' = Release(plock)
    /\ UNCHANGED <<now, cacheVars, connections, nextHandle, fails, calls, scope,
                   metadata, global_pool>>

\* _add_connection, called by get_connection with the lock held: it takes the
\* lock again, registers the connection, and get_connection returns it.
AddConnection(t) ==
    /\ stack[t] # <<>>
    /\ Top(stack[t]).op = "get_connection"
    /\ Top(stack[t]).pc = "add"
    /\ CanAcquire(plock, t)
    /\ LET f == Top(stack[t])
       IN  /\ AddEffect(f.uid, f.conn, "")
           /\ Return(t, Rest(stack[t]),
                     GetConnectionRecord(f, TRUE, f.conn))
    /\ plock' = Release(plock)
    /\ UNCHANGED <<now, cacheVars, pstats, nextHandle, calls, scope,
                   metadata, global_pool>>

\* -------------------------------------- ConnectionPool.release_connection
\* `error or "Unknown error"`
ErrorText(error) == IF error \in {None, Falsy} THEN "Unknown error" ELSE error

ReleaseEffect(user_id, success, error) ==
    LET c == Lookup(connections, user_id)
    IN  IF ~Has(connections, user_id) THEN connections
        ELSE IF success THEN Put(connections, [c EXCEPT !.state = AVAILABLE])
        ELSE Put(connections, MarkError(c, ErrorText(error)))

ReleaseConnection(t, user_id, success) ==
    /\ MayCallPool(t)
    /\ connections' = ReleaseEffect(user_id, success, "error")
    /\ fails' = IF Has(connections, user_id) /\ ~success
                THEN [fails EXCEPT ![user_id] = @ + 1]
                ELSE fails
    /\ Atomic(t, [op |-> "release_connection", uid |-> user_id,
                   success |-> success,
                   present |-> Has(connections, user_id),
                   nfails |-> fails'[user_id]])
    /\ UNCHANGED <<now, cacheVars, pstats, plock, nextHandle, scope,
                   metadata, global_pool>>

\* ------------------------------------------- ConnectionPool.connection
\* The ways control leaves the body of `with pool.connection(...)`: it
\* completes, or it raises; ValueError is an Exception, KeyboardInterrupt and
\* GeneratorExit (the generator is closed) are BaseExceptions that
\* `except Exception` does not catch.
Completes == "return"
ScopeExits == {Completes, "ValueError", "KeyboardInterrupt", "GeneratorExit"}

IsException(e) == e \in {"ValueError"}

\* str(e): the message the exception was raised with, nothing for the others.
Str(e) == IF e = "ValueError" THEN "bad value" ELSE Falsy

\* The context manager calls get_connection and yields what it returns to the
\* body.  A factory given to it creates a connection.
EnterConnection(t, user_id, withFactory) ==
    LET present == Has(connections, user_id)
        c == Lookup(connections, user_id)
        hit == present /\ IsConnectionUsable(c, now)
        created == ~hit /\ withFactory
        conn == IF hit THEN c.connection
                ELSE IF created THEN nextHandle ELSE NoConnection
    IN  /\ MayCallPool(t)
        /\ stack[t] = <<>>
        /\ connections' =
              IF hit
              THEN Put(connections, [ConnTouch(c) EXCEPT !.state = IN_USE])
              ELSE IF created
              THEN Put(EvictOldestConnection(Del(connections, user_id)),
                       NewConnection(user_id, nextHandle, ""))
              ELSE Del(connections, user_id)
        /\ pstats' = IF hit
                     THEN [pstats EXCEPT !.total_requests = @ + 1,
                                         !.cache_hits = @ + 1]
                     ELSE [pstats EXCEPT !.total_requests = @ + 1,
                                         !.cache_misses = @ + 1]
        /\ nextHandle' = IF created THEN nextHandle + 1 ELSE nextHandle
        /\ fails' = IF created THEN [fails EXCEPT ![user_id] = 0] ELSE fails
        /\ Begin(t, <<[op |-> "connection", pc |-> "body", uid |-> user_id,
                       conn |-> conn, nested |-> FALSE]>>)
        /\ UNCHANGED <<now, cacheVars, plock, scope, metadata, global_pool>>

\* Control leaves the body: on completion release_connection(success=True); on
\* an Exception release_connection(success=False, error=str(e)) and the
\* exception is raised again; any other exception passes the handler by.
ScopeExit(t, exit) ==
    /\ stack[t] # <<>>
    /\ Top(stack[t]).op = "connection"
    /\ Top(stack[t]).pc = "body"
    /\ LET f == Top(stack[t])
           released == exit = Completes \/ IsException(exit)
       IN  /\ released => CanAcquire(plock, t)
           /\ connections' =
                 IF released
                 THEN ReleaseEffect(f.uid, exit = Completes, Str(exit))
                 ELSE connections
           /\ fails' = IF IsException(exit) /\ Has(connections, f.uid)
                       THEN [fails EXCEPT ![f.uid] = @ + 1]
                       ELSE fails
           /\ Return(t, Rest(stack[t]),
                     [op |-> "connection", uid |-> f.uid, conn |-> f.conn,
                      exit |-> exit,
                      released |-> IF released THEN 1 ELSE 0,
                      success |-> exit = Completes,
                      error |-> IF IsException(exit) THEN Str(exit) ELSE None,
                      raised |-> IF exit = Completes THEN None ELSE exit])
    /\ UNCHANGED <<now, cacheVars, pstats, plock, nextHandle, calls, scope,
                   metadata, global_pool>>

\* --------------------------------------- ConnectionPool.remove_connection
RemoveConnection(t, user_id) ==
    /\ MayCallPool(t)
    /\ connections' = Del(connections, user_id)
    /\ Atomic(t, [op |-> "remove_connection", uid |-> user_id,
                   ret |-> Has(connections, user_id)])
    /\ UNCHANGED <<now, cacheVars, pstats, plock, nextHandle, fails, scope,
                   metadata, global_pool>>

\* --------------------------------------- ConnectionPool.update_connection
\* The caller hands in a connection it created: an entry that exists gets it,
\* is AVAILABLE and without errors again and counts a reconnection; otherwise
\* _add_connection registers it.
UpdateConnection(t, user_id) ==
    /\ MayCallPool(t)
    /\ IF Has(connections, user_id)
       THEN /\ connections' = Put(connections,
                   ConnTouch([Lookup(connections, user_id) EXCEPT
                                 !.connection = nextHandle,
                                 !.instance_url = "url",
                                 !.state = AVAILABLE,
                                 !.error_count = 0,
                                 !.last_error = None]))
            /\ fails' = [fails EXCEPT ![user_id] = 0]
            /\ pstats' = [pstats EXCEPT !.reconnections = @ + 1]
       ELSE /\ AddEffect(user_id, nextHandle, "url")
            /\ pstats' = pstats
    /\ nextHandle' = nextHandle + 1
    /\ Atomic(t, [op |-> "update_connection", uid |-> user_id,
                   conn |-> nextHandle,
                   present |-> Has(connections, user_id),
                   found |-> IF Has(connections, user_id)
                             THEN <<Lookup(connections, user_id)>> ELSE <<>>,
                   size |-> Len(connections)])
    /\ UNCHANGED <<now, cacheVars, plock, scope, metadata, global_pool>>

\* ------------------------------------------- ConnectionPool.health_check
\* What a probe (check_func) does with a connection: it returns a true or a
\* false value, or it raises.  The argument check_func is <<>> for None and
\* <<p>> for a probe p, a function of the identity whose connection it is given.
ProbeOutcomes == {"true", "false", "raise"}

\* The status health_check gives an entry: its state first, then its age, then
\* the probe, whose exception is caught.
HealthStatusByProbe(c, probe) ==
    IF probe = <<>> THEN "healthy"
    ELSE CASE probe[1][c.key] = "true" -> "healthy"
           [] probe[1][c.key] = "false" -> "check_failed"
           [] probe[1][c.key] = "raise" -> "error: probe"

HealthStatus(c, probe) ==
    IF c.state = FAILED THEN "failed"
    ELSE IF IsStale(c, now) THEN "stale"
    ELSE IF probe = <<>> THEN "healthy"
    ELSE CASE probe[1][c.key] = "true" -> "healthy"
           [] probe[1][c.key] = "false" -> "check_failed"
           [] probe[1][c.key] = "raise" -> "error: probe"

\* The loop of health_check over the entries, in the pool's order.
RECURSIVE HealthScan(_, _, _)
HealthScan(od, probe, results) ==
    IF od = <<>> THEN results
    ELSE LET c == Head(od)
             status == HealthStatus(c, probe)
         IN  HealthScan(Tail(od), probe,
                 [healthy |-> results.healthy +
                                 (IF status = "healthy" THEN 1 ELSE 0),
                  unhealthy |-> results.unhealthy +
                                 (IF status = "healthy" THEN 0 ELSE 1),
                  details |-> Append(results.details,
                                 [user_id |-> c.key, status |-> status,
                                  error_count |-> c.error_count,
                                  last_error |-> c.last_error])])

HealthCheck(t, probe) ==
    /\ MayCallPool(t)
    /\ Atomic(t, [op |-> "health_check", probe |-> probe, time |-> now,
                   ret |-> HealthScan(connections, probe,
                              [healthy |-> 0, unhealthy |-> 0,
                               details |-> <<>>])])
    /\ UNCHANGED <<now, cacheVars, poolVars, scope, metadata, global_pool>>

\* ----------------------------------------------------- the pool's cleanups
CleanupIdleConnections(t) ==
    /\ MayCallPool(t)
    /\ LET kept == SelectSeq(connections,
                      LAMBDA c : ~(IsIdle(c, now) /\ c.state = AVAILABLE))
       IN  /\ connections' = kept
           /\ Atomic(t, [op |-> "cleanup_idle_connections",
                          ret |-> Len(connections) - Len(kept)])
    /\ UNCHANGED <<now, cacheVars, pstats, plock, nextHandle, fails, scope,
                   metadata, global_pool>>

CleanupFailedConnections(t) ==
    /\ MayCallPool(t)
    /\ LET kept == SelectSeq(connections, LAMBDA c : c.state # FAILED)
       IN  /\ connections' = kept
           /\ Atomic(t, [op |-> "cleanup_failed_connections",
                          ret |-> Len(connections) - Len(kept)])
    /\ UNCHANGED <<now, cacheVars, pstats, plock, nextHandle, fails, scope,
                   metadata, global_pool>>

\* ------------------------------------------------- get_connection_pool
\* The module's pool is None (<<>>) or the n-th ConnectionPool made (<<n>>).
\* get_connection_pool reads the global three times: for the check outside the
\* lock, for the check under the lock, and for the return.  The block under
\* _pool_lock is one step: the accesses outside the lock are single reads.
MayCallModule(t) ==
    /\ t \in scope.threads
    /\ calls < scope.calls
    /\ stack[t] = <<>>

AtPool(t, pc) ==
    /\ stack[t] # <<>>
    /\ Top(stack[t]).op = "get_connection_pool"
    /\ Top(stack[t]).pc = pc

\* `if _global_pool is None:`
GetConnectionPool(t) ==
    /\ MayCallModule(t)
    /\ Begin(t, <<[op |-> "get_connection_pool",
                   pc |-> IF global_pool.pool = <<>> THEN "lock" ELSE "return",
                   nested |-> FALSE, resets |-> global_pool.resets]>>)
    /\ UNCHANGED <<now, cacheVars, poolVars, scope, metadata, global_pool>>

\* `with _pool_lock: if _global_pool is None: _global_pool = ConnectionPool()`
CreatePool(t) ==
    /\ AtPool(t, "lock")
    /\ global_pool' =
          IF global_pool.pool = <<>>
          THEN [global_pool EXCEPT !.pool = <<global_pool.made + 1>>,
                                   !.made = @ + 1]
          ELSE global_pool
    /\ stack' = [stack EXCEPT ![t] = <<[Top(@) EXCEPT !.pc = "return"]>>]
    /\ UNCHANGED <<now, cacheVars, poolVars, last, prev, calls, scope, metadata>>

\* `return _global_pool`
ReturnPool(t) ==
    /\ AtPool(t, "return")
    /\ Return(t, <<>>, [op |-> "get_connection_pool", ret |-> global_pool.pool,
                        resets |-> Top(stack[t]).resets,
                        done |-> global_pool.resets])
    /\ UNCHANGED <<now, cacheVars, poolVars, calls, scope, metadata, global_pool>>

\* reset_connection_pool: under _pool_lock, the pool that exists is cleared
\* (its connections and counters) and the global set to None.
ResetConnectionPool(t) ==
    /\ MayCallModule(t)
    /\ plock = FreeLock
    /\ IF global_pool.pool # <<>>
       THEN /\ connections' = <<>>
            /\ pstats' = [total_requests |-> 0, cache_hits |-> 0,
                          cache_misses |-> 0, reconnections |-> 0, errors |-> 0]
            /\ fails' = [u \in Users |-> 0]
       ELSE UNCHANGED <<connections, pstats, fails>>
    /\ global_pool' = [global_pool EXCEPT !.pool = <<>>, !.resets = @ + 1]
    /\ Atomic(t, [op |-> "reset_connection_pool", had |-> global_pool.pool])
    /\ UNCHANGED <<now, cacheVars, plock, nextHandle, scope, metadata>>

\* --------------------------------------------------------------- strings
\* The strings that analyze_field_usage searches (names, bodies, formulas) are
\* tuples of characters.
\* `s in text`
Contains(text, s) ==
    \E i \in 0..(Len(text) - Len(s)) : SubSeq(text, i + 1, i + Len(s)) = s

\* str.lower, on the ASCII letters
UpperLetters ==
    <<"A", "B", "C", "D", "E", "F", "G", "H", "I", "J", "K", "L", "M",
      "N", "O", "P", "Q", "R", "S", "T", "U", "V", "W", "X", "Y", "Z">>

LowerLetters ==
    <<"a", "b", "c", "d", "e", "f", "g", "h", "i", "j", "k", "l", "m",
      "n", "o", "p", "q", "r", "s", "t", "u", "v", "w", "x", "y", "z">>

LowerChar(ch) ==
    IF \E i \in 1..Len(UpperLetters) : UpperLetters[i] = ch
    THEN LowerLetters[CHOOSE i \in 1..Len(UpperLetters) : UpperLetters[i] = ch]
    ELSE ch

Lower(s) == [i \in 1..Len(s) |-> LowerChar(s[i])]

\* str.strip
RECURSIVE LStrip(_)
LStrip(s) == IF s # <<>> /\ Head(s) = " " THEN LStrip(Tail(s)) ELSE s

RECURSIVE Strip(_)
Strip(s) ==
    IF s # <<>> /\ s[Len(s)] = " "
    THEN Strip(SubSeq(s, 1, Len(s) - 1))
    ELSE LStrip(s)

\* " ".join(parts)
RECURSIVE Join(_)
Join(parts) ==
    IF parts = <<>> THEN <<>>
    ELSE IF Len(parts) = 1 THEN parts[1]
    ELSE parts[1] \o <<" ">> \o Join(Tail(parts))

\* ---------------------------------------------- the organisation's metadata
\* What the Salesforce client returns for the object that is analysed: the
\* fields of its describe, and the records of each metadata query.
FX == <<"x">>
FXY == <<"x", "y">>
FZ == <<"z">>
FW == <<"w">>
FNone == <<"n">>

Field(name, formula) ==
    [name |-> name, label |-> "label", type |-> "string", custom |-> FALSE,
     nillable |-> TRUE, calculatedFormula |-> formula]

Org ==
    [fields |-> <<Field(FX, <<>>), Field(FXY, <<>>), Field(FZ, <<"x", "+", "1">>),
                  Field(FW, <<>>)>>,
     ApexClass |-> <<[Name |-> <<"C", "1">>, Body |-> <<"a", "x", "y", "b">>],
                     [Name |-> <<"C", "2">>, Body |-> <<"z", " ", "w">>]>>,
     ApexTrigger |-> <<[Name |-> <<"T", "1">>, Body |-> <<"x", ";">>],
                       [Name |-> <<"T", "2">>, Body |-> <<"z">>]>>,
     Flow |-> <<[Id |-> 1, Label |-> <<"F", "X">>, ApiName |-> <<"f", "1">>,
                 Metadata |-> <<"z", "=">>],
                [Id |-> 2, Label |-> <<>>, ApiName |-> <<"f", "2">>,
                 Metadata |-> <<"q">>]>>,
     ValidationRule |-> <<[ValidationName |-> <<"V", "1">>,
                           ErrorConditionFormula |-> <<"x", "y", ">", "0">>,
                           ErrorMessage |-> <<"z", "!">>],
                          [ValidationName |-> <<"V", "x">>,
                           ErrorConditionFormula |-> <<"q">>,
                           ErrorMessage |-> <<>>]>>,
     WorkflowRule |-> <<[Name |-> <<"W", "z">>, Formula |-> <<"x", "=", "1">>],
                        [Name |-> <<"W", "2">>, Formula |-> <<"x", "y">>]>>,
     Layout |-> <<[Id |-> 1, Name |-> <<"L", "1">>,
                   items |-> <<<<"X", " ">>, <<>>, <<"z">>>>],
                  [Id |-> 2, Name |-> <<"L", "2">>,
                   items |-> <<<<"x", "y">>, <<"w">>>>]>>,
     Report |-> <<[Id |-> 1, Name |-> <<"R", "X", "Y">>,
                   detailColumns |-> <<<<"z">>, <<"q">>>>,
                   reportFilters |-> <<<<"x">>>>],
                  [Id |-> 2, Name |-> <<"R", "2">>,
                   detailColumns |-> <<<<"x", "y">>>>,
                   reportFilters |-> <<>>]>>,
     EmailTemplate |-> <<[Name |-> <<"E", "1">>, DeveloperName |-> <<"e", "1">>,
                          Subject |-> <<"x">>, HtmlValue |-> <<"<", "z", ">">>,
                          Body |-> <<"q">>],
                         [Name |-> <<>>, DeveloperName |-> <<"e", "2">>,
                          Subject |-> <<>>, HtmlValue |-> <<>>,
                          Body |-> <<"z">>]>>]

\* The metadata categories in the order analyze fetches them; the report
\* category is fetched only on request.
Categories ==
    <<"ApexClass", "ApexTrigger", "Flow", "ValidationRule", "WorkflowRule",
      "Layout", "Report", "EmailTemplate">>

\* metadata_cache before the first fetch: one empty dict per category.
EmptyWorkingSet == [c \in {Categories[i] : i \in 1..Len(Categories)} |-> <<>>]

\* One query sent to the Salesforce client: the object queried and, for the
\* lookups made per record, the record's Id (0 for the bulk queries).
Query(what, id) == [q |-> what, id |-> id]

\* dict[k] = v for every record of a query result, in order.
RECURSIVE PutAll(_, _)
PutAll(od, entries) ==
    IF entries = <<>> THEN od
    ELSE PutAll(Put(od, Head(entries)), Tail(entries))

Map(s, Op(_)) == [i \in 1..Len(s) |-> Op(s[i])]

\* ------------------------------------------- analyze_field_usage: fetching
\* What goes wrong in the fetch of one category: the category's query raises
\* (ok is false); the record number `bad` of its result cannot be processed
\* (it is not a dict, or lacks the key that is subscripted), 0 for none; the
\* lookups made for the records whose Ids are in `failing` raise; the first
\* record has a null text (`null`).
Fault(ok, bad, failing, null) ==
    [ok |-> ok, bad |-> bad, failing |-> failing, null |-> null]

NoFault == Fault(TRUE, 0, {}, FALSE)

\* The value stored for a text that is null in the result: `.get(key, "")`
\* gives None for a key that is present with the value None.
NullText == <<None>>

\* The fetch raises into the handler around the category.
FetchRaises(category, fault) ==
    ~fault.ok \/ fault.bad \in 1..Len(Org[category])

\* The records of the result that the loop processes before it ends.
Processed(category, fault) ==
    IF fault.bad \in 1..Len(Org[category])
    THEN SubSeq(Org[category], 1, fault.bad - 1)
    ELSE Org[category]

\* The text of record r: `r.get(key, "")`.
TextOf(category, r, text, fault) ==
    IF fault.null /\ r = Org[category][1] THEN NullText ELSE text

\* 1, 2: Apex classes and triggers, name -> body.
FetchBodies(what, fault) ==
    [ws |-> PutAll(<<>>, Map(Processed(what, fault),
                LAMBDA r : [key |-> r.Name,
                            text |-> TextOf(what, r, r.Body, fault)])),
     queries |-> <<Query(what, 0)>>]

\* 3: active flows, label (or API name) -> label, API name and, when the lookup
\* of the flow's metadata succeeds, the metadata.
FlowEntry(flow, failing) ==
    [key |-> IF flow.Label # <<>> THEN flow.Label ELSE flow.ApiName,
     text |-> IF flow.Id \in failing
              THEN flow.Label \o <<" ">> \o flow.ApiName
              ELSE flow.Label \o <<" ">> \o flow.ApiName \o <<" ">> \o flow.Metadata]

FetchFlows(fault) ==
    [ws |-> PutAll(<<>>, Map(Processed("Flow", fault),
                LAMBDA r : FlowEntry(r, fault.failing))),
     queries |-> <<Query("Flow", 0)>> \o
                 Map(Processed("Flow", fault),
                     LAMBDA r : Query("FlowMetadata", r.Id))]

\* 4: active validation rules of the object, name -> formula, message, name.
FetchValidationRules(fault) ==
    [ws |-> PutAll(<<>>, Map(Processed("ValidationRule", fault),
                LAMBDA r : [key |-> r.ValidationName,
                            formula |-> r.ErrorConditionFormula,
                            error_msg |-> r.ErrorMessage,
                            name |-> r.ValidationName])),
     queries |-> <<Query("ValidationRule", 0)>>]

\* 5: active workflow rules of the object, name -> formula.
FetchWorkflowRules(fault) ==
    [ws |-> PutAll(<<>>, Map(Processed("WorkflowRule", fault),
                LAMBDA r : [key |-> r.Name,
                            text |-> TextOf("WorkflowRule", r, r.Formula, fault)])),
     queries |-> <<Query("WorkflowRule", 0)>>]

\* 6: page layouts of the object, name -> the stripped names of its field
\* items that are not empty; no names when the lookup of the items raises.
LayoutEntry(layout, failing) ==
    [key |-> layout.Name,
     names |-> IF layout.Id \in failing THEN <<>>
               ELSE Map(SelectSeq(layout.items, LAMBDA n : n # <<>>),
                        LAMBDA n : Strip(n))]

FetchLayouts(fault) ==
    [ws |-> PutAll(<<>>, Map(Processed("Layout", fault),
                LAMBDA r : LayoutEntry(r, fault.failing))),
     queries |-> <<Query("Layout", 0)>> \o
                 Map(Processed("Layout", fault),
                     LAMBDA r : Query("FieldLayoutItem", r.Id))]

\* 7: reports, name -> the columns of the report's description joined; the
\* name alone when the lookup of the description raises.  The loop stops when
\* report_count, the number of descriptions stored, has reached the limit.
RECURSIVE ReportLoop(_, _, _)
ReportLoop(reports, failing, acc) ==
    IF reports = <<>> \/ acc.count >= REPORT_LIMIT THEN acc
    ELSE LET r == Head(reports)
             sent == Append(acc.queries, Query("ReportDescribe", r.Id))
         IN  IF r.Id \in failing
             THEN ReportLoop(Tail(reports), failing,
                      [ws |-> Put(acc.ws, [key |-> r.Name, text |-> r.Name]),
                       queries |-> sent, count |-> acc.count])
             ELSE ReportLoop(Tail(reports), failing,
                      [ws |-> Put(acc.ws,
                                  [key |-> r.Name,
                                   text |-> Join(r.detailColumns \o r.reportFilters)]),
                       queries |-> sent, count |-> acc.count + 1])

FetchReports(fault) ==
    ReportLoop(Processed("Report", fault), fault.failing,
               [ws |-> <<>>, queries |-> <<Query("Report", 0)>>, count |-> 0])

\* 8: active email templates, name -> subject, HTML, body and developer name.
FetchEmailTemplates(fault) ==
    [ws |-> PutAll(<<>>, Map(Processed("EmailTemplate", fault),
                LAMBDA r : [key |-> IF r.Name # <<>> THEN r.Name
                                    ELSE r.DeveloperName,
                            text |-> Join(<<r.Subject, r.HtmlValue, r.Body,
                                            r.DeveloperName>>)])),
     queries |-> <<Query("EmailTemplate", 0)>>]

\* The loop over the records of a category's result.
FetchRecords(category, fault) ==
    CASE category \in {"ApexClass", "ApexTrigger"} -> FetchBodies(category, fault)
      [] category = "Flow" -> FetchFlows(fault)
      [] category = "ValidationRule" -> FetchValidationRules(fault)
      [] category = "WorkflowRule" -> FetchWorkflowRules(fault)
      [] category = "Layout" -> FetchLayouts(fault)
      [] category = "Report" ->
            [ws |-> FetchReports(fault).ws,
             queries |-> FetchReports(fault).queries]
      [] category = "EmailTemplate" -> FetchEmailTemplates(fault)

\* The fetch of one category.  When the category's own query raises, the
\* handler around the fetch logs a warning and the dict stays empty; when a
\* record of the result raises, the dict keeps what the loop has stored.
FetchCategoryDespiteRaise(category, fault) ==
    FetchRecords(category, IF fault.ok THEN fault ELSE NoFault)

FetchCategory(category, fault) ==
    IF ~fault.ok THEN [ws |-> <<>>, queries |-> <<Query(category, 0)>>]
    ELSE FetchRecords(category, fault)

\* The category fetched after `category`: the reports only when
\* include_reports is set; "match" after the last one.
NextCategory(category, include_reports) ==
    LET i == CHOOSE j \in 1..Len(Categories) : Categories[j] = category
        n == IF i < Len(Categories) /\ Categories[i + 1] = "Report"
                /\ ~include_reports
             THEN i + 2 ELSE i + 1
    IN  IF n > Len(Categories) THEN "match" ELSE Categories[n]

\* ------------------------------------------- analyze_field_usage: matching
\* The keys of a dict of the working set whose entries satisfy Test.
KeysWhere(od, Test(_)) == Map(SelectSeq(od, Test), LAMBDA e : e.key)

\* total_usage: the lengths of the nine lists of the record, added up.
TotalUsageWithoutEmail(u) ==
    Len(u.apex_classes) + Len(u.apex_triggers) + Len(u.flows)
    + Len(u.validation_rules) + Len(u.formula_fields) + Len(u.workflow_rules)
    + Len(u.page_layouts) + Len(u.reports)

TotalUsage(u) ==
    Len(u.apex_classes) + Len(u.apex_triggers) + Len(u.flows)
    + Len(u.validation_rules) + Len(u.formula_fields) + Len(u.workflow_rules)
    + Len(u.page_layouts) + Len(u.reports) + Len(u.email_templates)

\* The lists of the components that match the field, one per category.
UsageLists(field, ws) ==
    LET n == field.name
    IN  [field_name |-> n,
         field_label |-> field.label,
         field_type |-> field.type,
         is_custom |-> field.custom,
         is_required |-> ~field.nillable,
         apex_classes |-> KeysWhere(ws.ApexClass, LAMBDA e : Contains(e.text, n)),
         apex_triggers |-> KeysWhere(ws.ApexTrigger, LAMBDA e : Contains(e.text, n)),
         flows |-> KeysWhere(ws.Flow, LAMBDA e :
                      Contains(e.text, n) \/ Contains(Lower(e.key), Lower(n))),
         validation_rules |-> KeysWhere(ws.ValidationRule, LAMBDA e :
                      \/ Contains(e.formula, n)
                      \/ Contains(e.error_msg, n)
                      \/ Contains(e.name, n)),
         formula_fields |-> Map(SelectSeq(Org.fields, LAMBDA f :
                                    /\ f.calculatedFormula # <<>>
                                    /\ Contains(f.calculatedFormula, n)),
                                LAMBDA f : f.name),
         workflow_rules |-> KeysWhere(ws.WorkflowRule, LAMBDA e :
                      Contains(e.text, n) \/ Contains(e.key, n)),
         page_layouts |-> KeysWhere(ws.Layout, LAMBDA e :
                      \E i \in 1..Len(e.names) :
                          n = e.names[i] \/ Lower(n) = Lower(e.names[i])),
         reports |-> KeysWhere(ws.Report, LAMBDA e :
                      Contains(e.text, n) \/ Contains(Lower(e.key), Lower(n))),
         email_templates |-> KeysWhere(ws.EmailTemplate, LAMBDA e :
                      Contains(e.text, n))]

\* usage_data of one field, with the two derived values.
UsageRecord(field, ws) ==
    LET u == UsageLists(field, ws)
    IN  [field_name |-> u.field_name, field_label |-> u.field_label,
         field_type |-> u.field_type, is_custom |-> u.is_custom,
         is_required |-> u.is_required,
         apex_classes |-> u.apex_classes, apex_triggers |-> u.apex_triggers,
         flows |-> u.flows, validation_rules |-> u.validation_rules,
         formula_fields |-> u.formula_fields,
         workflow_rules |-> u.workflow_rules, page_layouts |-> u.page_layouts,
         reports |-> u.reports, email_templates |-> u.email_templates,
         total_usage |-> TotalUsage(u),
         is_referenced |-> TotalUsage(u) > 0]

\* ------------------------------------------------- analyze_field_usage
\* `if field_name`: the argument is <<>> for None and <<name>> for a name, and
\* Python takes None and the empty name for false.
FieldGiven(field_name) == field_name # <<>> /\ field_name[1] # <<>>

\* fields_to_analyze: the named field's entries of the describe, or all fields.
FieldsToAnalyze(field_name) ==
    IF FieldGiven(field_name)
    THEN SelectSeq(Org.fields, LAMBDA f : f.name = field_name[1])
    ELSE Org.fields

\* `if field_name: ... if not fields_to_analyze`
FieldNotFoundNever(field_name) == FALSE

FieldNotFound(field_name) ==
    FieldGiven(field_name) /\ FieldsToAnalyze(field_name) = <<>>

\* What analyze returns: the success flag, the error text, the usage records
\* and, as history, the queries the call sent, the working set it built and
\* what went wrong in the fetch of each category.
AnalyzeResult(f, success, error, records) ==
    [op |-> "analyze", field_name |-> f.field_name,
     include_reports |-> f.include_reports, success |-> success,
     error |-> error, records |-> records, queries |-> f.queries, ws |-> f.ws,
     faults |-> f.faults, described |-> f.described]

\* The handler of the call, `except Exception`: the error becomes a failure
\* result with the error's text.
AnalyzeFailureRaised(f, error) ==
    [op |-> "analyze", field_name |-> f.field_name, raised |-> TRUE,
     exc |-> error, described |-> f.described, ws |-> f.ws]

AnalyzeFailure(f, error) == AnalyzeResult(f, FALSE, error, <<>>)

\* The call up to the first fetch: the connection and the describe of the
\* object, either of which may raise, and the choice of the fields.  A failing
\* describe and a named field that the object does not have end the call with
\* a failure result.
CallAnalyze(t, field_name, include_reports, describes) ==
    LET f == [op |-> "analyze", pc |-> Categories[1], field_name |-> field_name,
              include_reports |-> include_reports,
              fields |-> FieldsToAnalyze(field_name),
              ws |-> EmptyWorkingSet,
              faults |-> [c \in DOMAIN EmptyWorkingSet |-> NoFault],
              records |-> <<>>, described |-> describes,
              queries |-> <<Query("describe", 0)>>, nested |-> FALSE]
    IN  /\ t \in scope.threads
        /\ calls < scope.calls
        /\ stack[t] = <<>>
        /\ IF ~describes
           THEN Atomic(t, AnalyzeFailure(f, "describe failed"))
           ELSE IF FieldNotFound(field_name)
           THEN Atomic(t, AnalyzeResult(f, FALSE, "not found", <<>>))
           ELSE Begin(t, <<f>>)
        /\ UNCHANGED <<now, cacheVars, poolVars, scope, metadata, global_pool>>

\* The fault is one that the fetch of the category can meet: a query that
\* raises has no result; only the records that are processed have lookups; the
\* categories that store a text as they get it are those that can store null
\* (scope.nullable: those of them whose records have a null text).
Applies(category, fault) ==
    /\ ~fault.ok => fault = Fault(FALSE, 0, {}, FALSE)
    /\ fault.bad <= Len(Org[category])
    /\ fault.failing \subseteq
          IF category \in {"Flow", "Layout", "Report"}
          THEN {Processed(category, fault)[i].Id :
                    i \in 1..Len(Processed(category, fault))}
          ELSE {}
    /\ fault.null => /\ category \in {"ApexClass", "ApexTrigger", "WorkflowRule"}
                     /\ category \in scope.nullable
                     /\ fault.bad # 1

\* The fetch of the next category into the working set.
FetchStep(t, fault) ==
    /\ stack[t] # <<>>
    /\ Top(stack[t]).op = "analyze"
    /\ Top(stack[t]).pc # "match"
    /\ Applies(Top(stack[t]).pc, fault)
    /\ LET f == Top(stack[t])
           fetched == FetchCategory(f.pc, fault)
       IN  stack' = [stack EXCEPT ![t] = <<[f EXCEPT
                        !.pc = NextCategory(f.pc, f.include_reports),
                        !.ws = [@ EXCEPT ![f.pc] = fetched.ws],
                        !.faults = [@ EXCEPT ![f.pc] = fault],
                        !.queries = @ \o fetched.queries]>>]
    /\ UNCHANGED <<now, cacheVars, poolVars, last, prev, calls, scope,
                   metadata, global_pool>>

\* `field_api_name in text` raises TypeError for a text that is None.
Unsearchable(ws) ==
    \E c \in {"ApexClass", "ApexTrigger", "WorkflowRule"} :
        \E i \in 1..Len(ws[c]) : ws[c][i].text = NullText

\* The queries sent while one field is matched: none, the matching reads the
\* working set only.
MatchQueriesPerField(field) == <<Query("ApexClass", 0)>>

MatchQueries(field) == <<>>

\* One turn of the loop over the fields: the next field is matched against
\* the working set.  After the last field the call returns the report; a
\* TypeError goes to the handler of the call, which returns a failure.
MatchStep(t) ==
    /\ stack[t] # <<>>
    /\ Top(stack[t]).op = "analyze"
    /\ Top(stack[t]).pc = "match"
    /\ LET f == Top(stack[t])
           field == f.fields[Len(f.records) + 1]
           g == [f EXCEPT !.records = Append(@, UsageRecord(field, f.ws)),
                          !.queries = @ \o MatchQueries(field)]
       IN  IF Unsearchable(f.ws)
           THEN Return(t, <<>>, AnalyzeFailure(f, "TypeError"))
           ELSE IF Len(g.records) = Len(g.fields)
           THEN Return(t, <<>>, AnalyzeResult(g, TRUE, None, g.records))
           ELSE /\ stack' = [stack EXCEPT ![t] = <<g>>]
                /\ UNCHANGED <<last, prev>>
    /\ UNCHANGED <<now, cacheVars, poolVars, calls, scope, metadata, global_pool>>

\* ------------------------------------------------ diagnose_and_fix_issue
\* Issue types are tuples of characters, as the strings of the field-usage
\* analysis are.

\* QA_SCENARIO_PATTERNS, in the order of the dict: the key, the number and the
\* issue type of each scenario.  The patterns are regular expressions; which
\* scenarios' patterns a description matches is an input of the call.
QA_SCENARIO_PATTERNS ==
    <<
      [scenario_key |-> "trigger_field_not_updating", scenario_id |-> 1,
       issue_type |-> <<"t", "r", "i", "g", "g", "e", "r">>],
      [scenario_key |-> "trigger_recursion", scenario_id |-> 2,
       issue_type |-> <<"t", "r", "i", "g", "g", "e", "r">>],
      [scenario_key |-> "soql_limit_exceeded", scenario_id |-> 3,
       issue_type |-> <<"t", "r", "i", "g", "g", "e", "r">>],
      [scenario_key |-> "flow_null_handling", scenario_id |-> 4,
       issue_type |-> <<"f", "l", "o", "w">>],
      [scenario_key |-> "flow_decision_wrong_value", scenario_id |-> 5,
       issue_type |-> <<"f", "l", "o", "w">>],
      [scenario_key |-> "wrong_license", scenario_id |-> 6,
       issue_type |-> <<"p", "e", "r", "m", "i", "s", "s", "i", "o", "n">>],
      [scenario_key |-> "field_level_security", scenario_id |-> 8,
       issue_type |-> <<"p", "e", "r", "m", "i", "s", "s", "i", "o", "n">>],
      [scenario_key |-> "formula_field_not_visible", scenario_id |-> 11,
       issue_type |-> <<"p", "e", "r", "m", "i", "s", "s", "i", "o", "n">>],
      [scenario_key |-> "report_field_not_visible", scenario_id |-> 22,
       issue_type |-> <<"r", "e", "p", "o", "r", "t">>],
      [scenario_key |-> "wrong_layout_assignment", scenario_id |-> 7,
       issue_type |-> <<"l", "a", "y", "o", "u", "t">>],
      [scenario_key |-> "missing_count_related_list", scenario_id |-> 10,
       issue_type |-> <<"l", "a", "y", "o", "u", "t">>],
      [scenario_key |-> "missing_fields_related_details", scenario_id |-> 15,
       issue_type |-> <<"l", "a", "y", "o", "u", "t">>],
      [scenario_key |-> "missing_related_list", scenario_id |-> 18,
       issue_type |-> <<"l", "a", "y", "o", "u", "t">>],
      [scenario_key |-> "required_field_validation", scenario_id |-> 9,
       issue_type |-> <<"v", "a", "l", "i", "d", "a", "t", "i", "o", "n">>],
      [scenario_key |-> "date_allows_past", scenario_id |-> 20,
       issue_type |-> <<"v", "a", "l", "i", "d", "a", "t", "i", "o", "n">>],
      [scenario_key |-> "validation_too_restrictive", scenario_id |-> 21,
       issue_type |-> <<"v", "a", "l", "i", "d", "a", "t", "i", "o", "n">>],
      [scenario_key |-> "missing_required_validation", scenario_id |-> 24,
       issue_type |-> <<"v", "a", "l", "i", "d", "a", "t", "i", "o", "n">>],
      [scenario_key |-> "unclear_validation_error", scenario_id |-> 25,
       issue_type |-> <<"v", "a", "l", "i", "d", "a", "t", "i", "o", "n">>],
      [scenario_key |-> "formula_calculates_incorrectly", scenario_id |-> 12,
       issue_type |-> <<"f", "o", "r", "m", "u", "l", "a">>],
      [scenario_key |-> "datetime_instead_of_date", scenario_id |-> 16,
       issue_type |-> <<"f", "o", "r", "m", "u", "l", "a">>],
      [scenario_key |-> "picklist_value_not_visible", scenario_id |-> 13,
       issue_type |-> <<"p", "i", "c", "k", "l", "i", "s", "t">>],
      [scenario_key |-> "wrong_field_type_picklist", scenario_id |-> 14,
       issue_type |-> <<"p", "i", "c", "k", "l", "i", "s", "t">>],
      [scenario_key |-> "wrong_probability_for_stage", scenario_id |-> 19,
       issue_type |-> <<"p", "i", "c", "k", "l", "i", "s", "t">>],
      [scenario_key |-> "lookup_wrong_object", scenario_id |-> 17,
       issue_type |-> <<"l", "o", "o", "k", "u", "p">>]
    >>

\* _detect_scenario: the first scenario of the table one of whose patterns
\* matches the description, <<>> for None.
DetectScenario(matches) ==
    LET hits == SelectSeq(QA_SCENARIO_PATTERNS,
                          LAMBDA sc : sc.scenario_key \in matches)
    IN  IF hits = <<>> THEN <<>> ELSE <<hits[1]>>

AUTO == <<"a", "u", "t", "o">>
DETECT == <<"d", "e", "t", "e", "c", "t">>

\* The issue types of each analyzer, in the order of the if/elif chain.
Routes ==
    <<
      [types |-> {<<"t", "r", "i", "g", "g", "e", "r">>,
                    <<"a", "p", "e", "x", "_", "t", "r", "i", "g", "g", "e", "r">>,
                    <<"a", "p", "e", "x", "t", "r", "i", "g", "g", "e", "r">>},
       analyzer |-> "_diagnose_trigger_issue"],
      [types |-> {<<"f", "l", "o", "w">>,
                    <<"p", "r", "o", "c", "e", "s", "s", "_", "b", "u", "i", "l", "d", "e", "r">>,
                    <<"w", "o", "r", "k", "f", "l", "o", "w">>},
       analyzer |-> "_diagnose_flow_issue"],
      [types |-> {<<"v", "a", "l", "i", "d", "a", "t", "i", "o", "n">>,
                    <<"v", "a", "l", "i", "d", "a", "t", "i", "o", "n", "_", "r", "u", "l", "e">>,
                    <<"v", "a", "l", "i", "d", "a", "t", "i", "o", "n", "r", "u", "l", "e">>},
       analyzer |-> "_diagnose_validation_issue"],
      [types |-> {<<"f", "i", "e", "l", "d">>,
                    <<"c", "u", "s", "t", "o", "m", "_", "f", "i", "e", "l", "d">>,
                    <<"c", "u", "s", "t", "o", "m", "f", "i", "e", "l", "d">>},
       analyzer |-> "_diagnose_field_issue"],
      [types |-> {<<"p", "e", "r", "m", "i", "s", "s", "i", "o", "n">>,
                    <<"p", "r", "o", "f", "i", "l", "e">>,
                    <<"p", "e", "r", "m", "s", "e", "t">>,
                    <<"f", "i", "e", "l", "d", "_", "s", "e", "c", "u", "r", "i", "t", "y">>,
                    <<"l", "i", "c", "e", "n", "s", "e">>},
       analyzer |-> "_diagnose_permission_issue"],
      [types |-> {<<"f", "o", "r", "m", "u", "l", "a">>,
                    <<"f", "o", "r", "m", "u", "l", "a", "_", "f", "i", "e", "l", "d">>},
       analyzer |-> "_diagnose_formula_issue"],
      [types |-> {<<"p", "i", "c", "k", "l", "i", "s", "t">>,
                    <<"p", "i", "c", "k", "l", "i", "s", "t", "_", "v", "a", "l", "u", "e">>,
                    <<"s", "t", "a", "g", "e">>},
       analyzer |-> "_diagnose_picklist_issue"],
      [types |-> {<<"l", "o", "o", "k", "u", "p">>,
                    <<"r", "e", "l", "a", "t", "i", "o", "n", "s", "h", "i", "p">>,
                    <<"m", "a", "s", "t", "e", "r", "_", "d", "e", "t", "a", "i", "l">>},
       analyzer |-> "_diagnose_lookup_issue"],
      [types |-> {<<"l", "a", "y", "o", "u", "t">>,
                    <<"p", "a", "g", "e", "_", "l", "a", "y", "o", "u", "t">>,
                    <<"p", "a", "g", "e", "l", "a", "y", "o", "u", "t">>,
                    <<"r", "e", "l", "a", "t", "e", "d", "_", "l", "i", "s", "t">>},
       analyzer |-> "_diagnose_layout_issue"],
      [types |-> {<<"r", "e", "p", "o", "r", "t">>,
                    <<"r", "e", "p", "o", "r", "t", "_", "f", "i", "e", "l", "d">>},
       analyzer |-> "_diagnose_report_issue"]
    >>

\* The analyzer the chain selects for an issue type; the generic diagnosis
\* for a type that is in no list.
Route(issue_type) ==
    LET hits == SelectSeq(Routes, LAMBDA r : issue_type \in r.types)
    IN  IF hits = <<>> THEN "_generic_diagnosis" ELSE hits[1].analyzer

\* The issue type that is routed: the caller's, lowered and stripped, or the
\* detected scenario's when the caller's is auto or detect.
RoutedTypeAlwaysDetected(issue_type, detected) ==
    IF detected # <<>> THEN detected[1].issue_type ELSE Strip(Lower(issue_type))

RoutedType(issue_type, detected) ==
    LET type == Strip(Lower(issue_type))
    IN  IF detected # <<>> /\ (type = AUTO \/ type = DETECT)
        THEN detected[1].issue_type
        ELSE type

\* The keys of the metadata a request gets through _get_cached_metadata: the
\* describe of the object in the field, formula and picklist diagnoses, and
\* the field's dependencies in the dependency analysis, each when the object
\* and the field are named.  (No component is named in the requests of the
\* model, so no trigger body and no validation rule is asked for.)
MetadataKeys(analyzer, object_name, field_name) ==
    IF object_name = <<>> \/ field_name = <<>> THEN <<>>
    ELSE (IF analyzer \in {"_diagnose_field_issue", "_diagnose_formula_issue",
                           "_diagnose_picklist_issue"}
          THEN <<[kind |-> "obj_describe", object |-> object_name[1],
                  field |-> <<>>]>>
          ELSE <<>>)
         \o <<[kind |-> "field_deps", object |-> object_name[1],
               field |-> field_name]>>

\* _get_cached_metadata for each key in turn: a key that is present and
\* younger than _CACHE_TTL is served from the dict, any other is fetched from
\* the client and stored with the time.
CacheHitAtTtl(md, key, time) ==
    Has(md, key) /\ time - Lookup(md, key).time <= CACHE_TTL

CacheHit(md, key, time) ==
    Has(md, key) /\ time - Lookup(md, key).time < CACHE_TTL

\* fetch_field_deps of _analyze_dependencies: three lookups, of the validation
\* rules, the flows and the triggers of the object, each in its own
\* try/except; the records of a lookup that raises are left out.
DependencyLookups == <<"ValidationRule", "Flow", "ApexTrigger">>

NameOf(category, r) ==
    CASE category = "ValidationRule" -> r.ValidationName
      [] category = "Flow" -> r.Label
      [] category = "ApexTrigger" -> r.Name

Dependents(category) ==
    [i \in 1..Len(Org[category]) |->
        [type |-> category, name |-> NameOf(category, Org[category][i])]]

RECURSIVE FetchFieldDeps(_, _)
FetchFieldDeps(lookups, failing) ==
    IF lookups = <<>> THEN <<>>
    ELSE (IF Head(lookups) \in failing THEN <<>> ELSE Dependents(Head(lookups)))
         \o FetchFieldDeps(Tail(lookups), failing)

\* What fetch_func returns for a key: the dependencies of a field; the
\* describe of an object is not looked into by the model.
FetchMetadata(key, failing) ==
    IF key.kind = "field_deps" THEN FetchFieldDeps(DependencyLookups, failing)
    ELSE <<>>

RECURSIVE GetCachedMetadata(_, _, _)
GetCachedMetadata(acc, keys, time) ==
    IF keys = <<>> THEN acc
    ELSE IF CacheHit(acc.md, Head(keys), time)
    THEN GetCachedMetadata([acc EXCEPT !.served = Append(@, Head(keys))],
                           Tail(keys), time)
    ELSE GetCachedMetadata(
             [acc EXCEPT !.fetched = Append(@, Head(keys)),
                         !.md = Put(@, [key |-> Head(keys), time |-> time,
                                        data |-> FetchMetadata(Head(keys), {})])],
             Tail(keys), time)

\* diagnose_and_fix_issue: the scenario is detected, the issue type routed,
\* the analyzer run and the dependencies analysed.
DiagnoseAndFixIssue(t, issue_type, matches, object_name, field_name) ==
    LET detected == DetectScenario(matches)
        analyzer == Route(RoutedType(issue_type, detected))
        got == GetCachedMetadata(
                   [md |-> metadata, fetched |-> <<>>, served |-> <<>>],
                   MetadataKeys(analyzer, object_name, field_name), now)
    IN  /\ t \in scope.threads
        /\ calls < scope.calls
        /\ stack[t] = <<>>
        /\ metadata' = got.md
        /\ Atomic(t, [op |-> "diagnose", issue_type |-> issue_type,
                      matches |-> matches, detected |-> detected,
                      analyzer |-> analyzer, object_name |-> object_name,
                      field_name |-> field_name, fetched |-> got.fetched,
                      served |-> got.served, time |-> now])
        /\ UNCHANGED <<now, cacheVars, poolVars, scope, global_pool>>

\* _analyze_dependencies for a field of an object (no component is named):
\* the field's dependencies come through _get_cached_metadata; the lookups in
\* `failing` raise when they are made.
AnalyzeDependencies(t, object_name, field_name, failing) ==
    LET keys == IF object_name = <<>> \/ field_name = <<>> THEN <<>>
                ELSE <<[kind |-> "field_deps", object |-> object_name[1],
                        field |-> field_name]>>
        hit == keys # <<>> /\ CacheHit(metadata, keys[1], now)
        fetches == keys # <<>> /\ ~hit
        data == IF hit THEN Lookup(metadata, keys[1]).data
                ELSE IF fetches THEN FetchMetadata(keys[1], failing)
                ELSE <<>>
    IN  /\ t \in scope.threads
        /\ calls < scope.calls
        /\ stack[t] = <<>>
        /\ metadata' = IF fetches
                       THEN Put(metadata, [key |-> keys[1], time |-> now,
                                           data |-> data])
                       ELSE metadata
        /\ Atomic(t, [op |-> "dependencies", key |-> keys,
                      depended_by |-> data,
                      lookups |-> IF fetches THEN DependencyLookups ELSE <<>>,
                      failing |-> failing, time |-> now])
        /\ UNCHANGED <<now, cacheVars, poolVars, scope, global_pool>>

\* debugging.clear_cache
ClearCache(t) ==
    /\ t \in scope.threads
    /\ calls < scope.calls
    /\ stack[t] = <<>>
    /\ metadata' = <<>>
    /\ Atomic(t, [op |-> "clear_cache"])
    /\ UNCHANGED <<now, cacheVars, poolVars, scope, global_pool>>

\* ---------------------------------------------------- escape_soql_string
QUOTE == "'"
BACKSLASH == "\\"
NUL == "\\x00"
NEWLINE == "\n"
RETURN == "\r"

\* str.replace(old, new) for an `old` of one character.
RECURSIVE Replace(_, _, _)
Replace(s, old, new) ==
    IF s = <<>> THEN <<>>
    ELSE (IF Head(s) = old THEN new ELSE <<Head(s)>>)
         \o Replace(Tail(s), old, new)

\* escape_soql_string: the quotes are escaped, then the backslashes, the null
\* bytes removed, the line ends made spaces; "" for None (<<>>, where a string
\* is <<s>>).
EscapeSoqlString(value) ==
    IF value = <<>> THEN <<>>
    ELSE Replace(Replace(Replace(Replace(Replace(value[1],
             QUOTE, <<BACKSLASH, QUOTE>>),
             BACKSLASH, <<BACKSLASH, BACKSLASH>>),
             NUL, <<>>), NEWLINE, <<" ">>), RETURN, <<" ">>)

\* A call of escape_soql_string.
Escape(t, value) ==
    /\ t \in scope.threads
    /\ calls < scope.calls
    /\ stack[t] = <<>>
    /\ Atomic(t, [op |-> "escape_soql_string", value |-> value,
                  ret |-> EscapeSoqlString(value)])
    /\ UNCHANGED <<now, cacheVars, poolVars, scope, metadata, global_pool>>

\* ------------------------------------------------------------ pagination
\* math.ceil(a / b) for b > 0
Ceil(a, b) == (a + b - 1) \div b

Min(a, b) == IF a < b THEN a ELSE b

Max(a, b) == IF a > b THEN a ELSE b

\* paginate_list: the page number is brought into 1..total_pages, the page is
\* the slice items[start_index:end_index].
PaginateList(items, page, page_size) ==
    LET total_records == Len(items)
        total_pages == IF page_size > 0 THEN Ceil(total_records, page_size) ELSE 1
        current == IF total_pages > 0 THEN Max(1, Min(page, total_pages)) ELSE 1
        start_index == (current - 1) * page_size
        end_index == Min(start_index + page_size, total_records)
    IN  [data |-> SubSeq(items, start_index + 1, end_index),
         total_records |-> total_records, page_size |-> page_size,
         current_page |-> current, total_pages |-> total_pages,
         has_next |-> current < total_pages, has_previous |-> current > 1,
         start_index |-> start_index, end_index |-> end_index]

\* len(response.to_json().encode('utf-8')): an item is an identity and the
\* number of bytes it takes in the JSON text; the bytes of the envelope (the
\* pagination block) are left out of the sizes and of max_size alike.
RECURSIVE ResponseSize(_)
ResponseSize(data) ==
    IF data = <<>> THEN 0 ELSE Head(data).size + ResponseSize(Tail(data))

\* `page_size > 10`: a page size of 10 or less is not halved.
HALVING_FLOOR == 10

\* `if current_page > 1000`: the safety limit on the number of pages.
PAGE_LIMIT == 1000

\* The page that one pass of the loop appends, and the page size it leaves:
\* a response over max_size is made again with half the page size, once, for
\* the same page number.
ChunkPage(data, max_size, page_size, current_page) ==
    LET response == PaginateList(data, current_page, page_size)
        halved == /\ ResponseSize(response.data) > max_size
                  /\ page_size > HALVING_FLOOR
        size == IF halved THEN page_size \div 2 ELSE page_size
    IN  [response |-> IF halved THEN PaginateList(data, current_page, size)
                      ELSE response,
         page_size |-> size, halved |-> halved]

\* `while (current_page - 1) * page_size < len(data)`
MorePages(f) == (f.current_page - 1) * f.page_size < Len(f.data)

\* What chunk_large_response returns, with its arguments and, as history, the
\* numbers of the pages whose page size was halved.
ChunkResult(f) ==
    [op |-> "chunk_large_response", data |-> f.data, max_size |-> f.max_size,
     page_size |-> f.given, chunks |-> f.chunks, halved |-> f.halved]

\* A call of chunk_large_response, up to the first test of the loop.
ChunkLargeResponse(t, data, max_size, page_size) ==
    LET f == [op |-> "chunk_large_response", data |-> data,
              max_size |-> max_size, given |-> page_size,
              page_size |-> page_size, current_page |-> 1, chunks |-> <<>>,
              halved |-> {}, nested |-> FALSE]
    IN  /\ t \in scope.threads
        /\ calls < scope.calls
        /\ stack[t] = <<>>
        /\ IF MorePages(f) THEN Begin(t, <<f>>) ELSE Atomic(t, ChunkResult(f))
        /\ UNCHANGED <<now, cacheVars, poolVars, scope, metadata, global_pool>>

\* One pass of the loop: a page is appended; the call returns when the loop's
\* test fails or the safety limit is passed.
ChunkStep(t) ==
    /\ stack[t] # <<>>
    /\ Top(stack[t]).op = "chunk_large_response"
    /\ LET f == Top(stack[t])
           page == ChunkPage(f.data, f.max_size, f.page_size, f.current_page)
           g == [f EXCEPT !.chunks = Append(@, page.response),
                          !.page_size = page.page_size,
                          !.halved = IF page.halved THEN @ \cup {f.current_page}
                                     ELSE @,
                          !.current_page = @ + 1]
       IN  IF g.current_page > PAGE_LIMIT \/ ~MorePages(g)
           THEN Return(t, <<>>, ChunkResult(g))
           ELSE /\ stack' = [stack EXCEPT ![t] = <<g>>]
                /\ UNCHANGED <<last, prev>>
    /\ UNCHANGED <<now, cacheVars, poolVars, calls, scope, metadata, global_pool>>

\* ----------------------------------------------------------------- time
\* The clock advances between the steps; a method body that reads it once
\* under the lock sees one value.
Tick ==
    /\ now < MaxTime
    /\ lock = FreeLock
    /\ now' = now + 1
    /\ UNCHANGED <<cacheVars, poolVars, stack, last, prev, calls, scope,
                   metadata, global_pool>>

\* ------------------------------------------------------- specifications
InitState ==
    /\ now = 0
    /\ cache = <<>>
    /\ stats = [hits |-> 0, misses |-> 0, evictions |-> 0]
    /\ lock = FreeLock
    /\ connections = <<>>
    /\ pstats = [total_requests |-> 0, cache_hits |-> 0, cache_misses |-> 0,
                 reconnections |-> 0, errors |-> 0]
    /\ plock = FreeLock
    /\ stack = [t \in Threads |-> <<>>]
    /\ last = [t \in Threads |-> NoResult]
    /\ prev = [t \in Threads |-> NoResult]
    /\ calls = 0
    /\ seq = 0
    /\ gets = [hit |-> 0, miss |-> 0]
    /\ nextHandle = 1
    /\ fails = [u \in Users |-> 0]
    /\ metadata = <<>>
    /\ global_pool = [pool |-> <<>>, made |-> 0, resets |-> 0]

QR == "query_results"
VR == "validation_rules"

Cats == {s[1] : s \in scope.slots}

\* The cache's operations, called one after the other by one thread.
Init ==
    /\ InitState
    /\ scope = [threads |-> {T1}, depth |-> 1, calls |-> MaxCalls,
                track |-> FALSE,
                slots |-> ({QR} \X {KA1, KA2, KB1, KB2}) \cup {<<VR, KA1>>},
                vals |-> {"v1"},
                ttls |-> {<<>>},
                pats |-> {PAStar, PStar}]

Next ==
    \/ \E t \in Threads, s \in scope.slots : CallGet(t, s[1], s[2])
    \/ \E t \in Threads : GetCount(t)
    \/ \E t \in Threads, s \in scope.slots, v \in scope.vals, ttl \in scope.ttls :
          Set(t, s[1], s[2], v, ttl)
    \/ \E t \in Threads, s \in scope.slots : Delete(t, s[1], s[2])
    \/ \E t \in Threads, c \in Cats : ClearCategory(t, c)
    \/ \E t \in Threads : ClearAll(t)
    \/ \E t \in Threads, c \in Cats, p \in scope.pats : InvalidatePattern(t, c, p)
    \/ \E t \in Threads : CleanupExpired(t)
    \/ Tick

Spec == Init /\ [][Next]_vars

\* Entries with a default and with explicit TTLs, read as the clock advances.
TtlInit ==
    /\ InitState
    /\ scope = [threads |-> {T1}, depth |-> 1, calls |-> MaxCalls - 1,
                track |-> FALSE,
                slots |-> {QR} \X {KA1, KB1},
                vals |-> {"v1", "v2"},
                ttls |-> {<<>>, <<0>>, <<2>>},
                pats |-> {}]

TtlNext ==
    \/ \E t \in Threads, s \in scope.slots : CallGet(t, s[1], s[2])
    \/ \E t \in Threads : GetCount(t)
    \/ \E t \in Threads, s \in scope.slots, v \in scope.vals, ttl \in scope.ttls :
          Set(t, s[1], s[2], v, ttl)
    \/ \E t \in Threads, s \in scope.slots : Delete(t, s[1], s[2])
    \/ \E t \in Threads : CleanupExpired(t)
    \/ Tick

TtlSpec == TtlInit /\ [][TtlNext]_vars

\* get and set on one category with one key more than it holds.
LruInit ==
    /\ InitState
    /\ scope = [threads |-> {T1}, depth |-> 1, calls |-> MaxCalls,
                track |-> FALSE,
                slots |-> {VR} \X {KA1, KA2, KB1, KB2},
                vals |-> {"v1"},
                ttls |-> {<<>>},
                pats |-> {}]

LruNext ==
    \/ \E t \in Threads, s \in scope.slots : CallGet(t, s[1], s[2])
    \/ \E t \in Threads : GetCount(t)
    \/ \E t \in Threads, s \in scope.slots, v \in scope.vals, ttl \in scope.ttls :
          Set(t, s[1], s[2], v, ttl)
    \/ Tick

LruSpec == LruInit /\ [][LruNext]_vars

\* Functions decorated with `cached`, called by one thread; a wrapped function
\* may call another one.
Exceptions == {"E1"}

MemoInit ==
    /\ InitState
    /\ scope = [threads |-> {T1}, depth |-> MaxDepth, calls |-> MaxCalls - 1,
                track |-> TRUE,
                slots |-> {QR} \X {KA1, KB1},
                vals |-> {"v1", Falsy, None},
                ttls |-> {<<>>},
                pats |-> {}]

MemoNext ==
    \/ \E t \in Threads, s \in scope.slots, ttl \in scope.ttls :
          CallCached(t, s[1], s[2], ttl)
    \/ \E t \in Threads : GetCount(t)
    \/ \E t \in Threads, v \in scope.vals : FuncReturn(t, v)
    \/ \E t \in Threads, e \in Exceptions : FuncRaise(t, e)
    \/ Tick

MemoSpec == MemoInit /\ [][MemoNext]_vars

\* Two threads that call get, set, delete and clear_all.
ConcInit ==
    /\ InitState
    /\ scope = [threads |-> {T1, T2}, depth |-> 1, calls |-> MaxCalls,
                track |-> FALSE,
                slots |-> {QR} \X {KA1, KB1},
                vals |-> {"v1"},
                ttls |-> {<<>>},
                pats |-> {}]

ConcNext ==
    \/ \E t \in Threads, s \in scope.slots : CallGet(t, s[1], s[2])
    \/ \E t \in Threads : GetCount(t)
    \/ \E t \in Threads, s \in scope.slots, v \in scope.vals, ttl \in scope.ttls :
          Set(t, s[1], s[2], v, ttl)
    \/ \E t \in Threads, s \in scope.slots : Delete(t, s[1], s[2])
    \/ \E t \in Threads : ClearAll(t)
    \/ Tick

ConcSpec == ConcInit /\ [][ConcNext]_vars

\* Two threads that call one function decorated with `cached`, with one key.
MemoRaceInit ==
    /\ InitState
    /\ scope = [threads |-> {T1, T2}, depth |-> 1, calls |-> MaxCalls - 1,
                track |-> FALSE,
                slots |-> {<<QR, KA1>>},
                vals |-> {"v1", "v2"},
                ttls |-> {<<>>},
                pats |-> {}]

MemoRaceSpec == MemoRaceInit /\ [][MemoNext]_vars

\* The pool's operations, called one after the other by one thread.
PoolInit ==
    /\ InitState
    /\ scope = [threads |-> {T1}, depth |-> 1, calls |-> MaxCalls,
                track |-> TRUE,
                users |-> {U1, U2}]

PoolNext ==
    \/ \E t \in Threads, u \in scope.users, f \in BOOLEAN :
          CallGetConnection(t, u, f)
    \/ \E t \in Threads, created \in BOOLEAN : FactoryReturn(t, created)
    \/ \E t \in Threads : FactoryRaise(t)
    \/ \E t \in Threads : AddConnection(t)
    \/ \E t \in Threads, u \in scope.users, s \in BOOLEAN :
          ReleaseConnection(t, u, s)
    \/ \E t \in Threads, u \in scope.users : UpdateConnection(t, u)
    \/ \E t \in Threads, u \in scope.users : RemoveConnection(t, u)
    \/ \E t \in Threads : CleanupFailedConnections(t)
    \/ \E t \in Threads : CleanupIdleConnections(t)
    \/ Tick

PoolSpec == PoolInit /\ [][PoolNext]_vars

\* Two threads that are handed the connection of one identity, release what
\* they were handed and clean up idle connections as the clock advances.
Got(t, user_id) ==
    /\ last[t].op = "get_connection"
    /\ last[t].uid = user_id
    /\ last[t].ret # NoConnection

HeldInit ==
    /\ InitState
    /\ scope = [threads |-> {T1, T2}, depth |-> 1, calls |-> MaxCalls,
                track |-> FALSE,
                users |-> {U1}]

HeldNext ==
    \/ \E t \in Threads, u \in scope.users : UpdateConnection(t, u)
    \/ \E t \in Threads, u \in scope.users : CallGetConnection(t, u, FALSE)
    \/ \E t \in Threads, u \in scope.users, s \in BOOLEAN :
          Got(t, u) /\ ReleaseConnection(t, u, s)
    \/ \E t \in Threads : CleanupIdleConnections(t)
    \/ Tick

HeldSpec == HeldInit /\ [][HeldNext]_vars

\* Two threads that get the connection of one identity, created by a factory
\* when there is none, release what they were handed and remove the entry.
HandedInit ==
    /\ InitState
    /\ scope = [threads |-> {T1, T2}, depth |-> 1, calls |-> MaxCalls,
                track |-> FALSE,
                users |-> {U1}]

HandedNext ==
    \/ \E t \in Threads, u \in scope.users : CallGetConnection(t, u, TRUE)
    \/ \E t \in Threads, created \in BOOLEAN : FactoryReturn(t, created)
    \/ \E t \in Threads : FactoryRaise(t)
    \/ \E t \in Threads : AddConnection(t)
    \/ \E t \in Threads, u \in scope.users, s \in BOOLEAN :
          Got(t, u) /\ ReleaseConnection(t, u, s)
    \/ \E t \in Threads, u \in scope.users : RemoveConnection(t, u)

HandedSpec == HandedInit /\ [][HandedNext]_vars

\* Two threads that call get_connection_pool and reset_connection_pool.
SingletonInit ==
    /\ InitState
    /\ scope = [threads |-> {T1, T2}, depth |-> 1, calls |-> MaxCalls,
                track |-> FALSE]

SingletonNext ==
    \/ \E t \in Threads : GetConnectionPool(t)
    \/ \E t \in Threads : CreatePool(t)
    \/ \E t \in Threads : ReturnPool(t)
    \/ \E t \in Threads : ResetConnectionPool(t)

SingletonSpec == SingletonInit /\ [][SingletonNext]_vars

\* Connections of one identity more than the pool holds, registered, handed
\* out, released, updated and removed by one thread, at one time.
EvictInit ==
    /\ InitState
    /\ scope = [threads |-> {T1}, depth |-> 1, calls |-> MaxCalls,
                track |-> TRUE,
                users |-> {U1, U2, U3}]

EvictNext ==
    \/ \E t \in Threads, u \in scope.users, f \in BOOLEAN :
          CallGetConnection(t, u, f)
    \/ \E t \in Threads, created \in BOOLEAN : FactoryReturn(t, created)
    \/ \E t \in Threads : AddConnection(t)
    \/ \E t \in Threads, u \in scope.users : UpdateConnection(t, u)
    \/ \E t \in Threads, u \in scope.users : RemoveConnection(t, u)
    \/ \E t \in Threads, u \in scope.users, ok \in BOOLEAN :
          ReleaseConnection(t, u, ok)
    \/ \E t \in Threads : CleanupFailedConnections(t)

EvictSpec == EvictInit /\ [][EvictNext]_vars

\* One thread that uses the connection of one identity in the scope of the
\* pool's context manager, and releases and updates it outside of it.
ScopeInit ==
    /\ InitState
    /\ scope = [threads |-> {T1}, depth |-> 1, calls |-> MaxCalls - 1,
                track |-> FALSE,
                users |-> {U1}]

ScopeNext ==
    \/ \E t \in Threads, u \in scope.users, f \in BOOLEAN :
          EnterConnection(t, u, f)
    \/ \E t \in Threads, exit \in ScopeExits : ScopeExit(t, exit)
    \/ \E t \in Threads, u \in scope.users, s \in BOOLEAN :
          ReleaseConnection(t, u, s)
    \/ \E t \in Threads, u \in scope.users : UpdateConnection(t, u)
    \/ Tick

ScopeSpec == ScopeInit /\ [][ScopeNext]_vars

\* Health checks, with and without a probe, of a pool whose connections are
\* registered, released and updated and grow old.
HealthInit ==
    /\ InitState
    /\ scope = [threads |-> {T1}, depth |-> 1, calls |-> MaxCalls,
                track |-> FALSE,
                users |-> {U1, U2},
                probes |-> {<<>>} \cup
                    {<<p>> : p \in [{U1, U2} -> ProbeOutcomes]}]

HealthNext ==
    \/ \E t \in Threads, u \in scope.users : UpdateConnection(t, u)
    \/ \E t \in Threads, u \in scope.users : ReleaseConnection(t, u, FALSE)
    \/ \E t \in Threads, probe \in scope.probes : HealthCheck(t, probe)
    \/ Tick

HealthSpec == HealthInit /\ [][HealthNext]_vars

\* One call of analyze_field_usage, for one field, for a field the object does
\* not have or for all fields, in which any query may raise.
UsageInit ==
    /\ InitState
    /\ scope = [threads |-> {T1}, depth |-> 1, calls |-> 1,
                track |-> FALSE,
                names |-> {<<>>, <<<<>>>>, <<FX>>, <<FXY>>, <<FNone>>},
                faults |-> {Fault(ok, 0, failing, FALSE) :
                               ok \in BOOLEAN, failing \in {{}, {1}}},
                nullable |-> {}]

UsageNext ==
    \/ \E t \in Threads, n \in scope.names, r \in BOOLEAN, d \in BOOLEAN :
          CallAnalyze(t, n, r, d)
    \/ \E t \in Threads, fault \in scope.faults : FetchStep(t, fault)
    \/ \E t \in Threads : MatchStep(t)

UsageSpec == UsageInit /\ [][UsageNext]_vars

\* One call of analyze_field_usage in which the fetch of every category may
\* go wrong in every way: the query raises, a record of the result cannot be
\* processed, a lookup made for a record raises, a text is null.
FaultInit ==
    /\ InitState
    /\ scope = [threads |-> {T1}, depth |-> 1, calls |-> 1,
                track |-> FALSE,
                names |-> {<<>>, <<FZ>>},
                faults |-> {Fault(ok, bad, failing, null) :
                               ok \in BOOLEAN, bad \in {0, MaxRecords},
                               failing \in {{}, {1}}, null \in BOOLEAN},
                nullable |-> {"ApexClass"}]

FaultSpec == FaultInit /\ [][UsageNext]_vars

\* The issue types that the if/elif chain of diagnose_and_fix_issue names.
RoutedTypes == UNION {Routes[i].types : i \in 1..Len(Routes)}

\* Two requests to diagnose_and_fix_issue, each with any issue type (one the
\* chain names, auto, detect, one it does not name; as it is or in capitals
\* and padded) and any description (matching no scenario, one or two).
RouteInit ==
    /\ InitState
    /\ scope = [threads |-> {T1, T2}, depth |-> 1, calls |-> 2,
                track |-> FALSE,
                types |-> RoutedTypes \cup {AUTO, DETECT} \cup
                    {<<" ", "A", "U", "T", "O", " ">>,
                     <<"D", "e", "t", "e", "c", "t">>,
                     <<"a", "u", "t", "o", "m", "a", "t", "i", "c">>,
                     <<"b", "o", "g", "u", "s">>,
                     <<>>,
                     <<" ", "F", "l", "o", "w">>,
                     <<"T", "R", "I", "G", "G", "E", "R">>,
                     <<"V", "a", "l", "i", "d", "a", "t", "i", "o", "n", "_", "R", "u", "l", "e", " ">>},
                matches |-> {{}, {"trigger_recursion"}, {"flow_null_handling"},
                             {"date_allows_past", "wrong_license"},
                             {"lookup_wrong_object"}},
                objects |-> {<<>>},
                fields |-> {<<>>}]

DiagnoseNext ==
    \E t \in Threads, type \in scope.types, m \in scope.matches,
       o \in scope.objects, f \in scope.fields :
          DiagnoseAndFixIssue(t, type, m, o, f)

RouteSpec == RouteInit /\ [][DiagnoseNext]_vars

\* Requests to diagnose a field of an object, with the Global Cache and the
\* metadata cache of the debugging module cleared at any moment between them.
RequestInit ==
    /\ InitState
    /\ scope = [threads |-> {T1}, depth |-> 1, calls |-> MaxCalls,
                track |-> FALSE,
                types |-> {<<"f", "i", "e", "l", "d">>, AUTO},
                matches |-> {{}, {"formula_calculates_incorrectly"}},
                objects |-> {<<"Account">>},
                fields |-> {<<>>, <<FX>>}]

RequestNext ==
    \/ DiagnoseNext
    \/ \E t \in Threads : ClearAll(t)
    \/ \E t \in Threads : ClearCache(t)
    \/ Tick

RequestSpec == RequestInit /\ [][RequestNext]_vars

\* Dependency analyses of one field, some of whose lookups fail, repeated as
\* the clock advances.
DepsInit ==
    /\ InitState
    /\ scope = [threads |-> {T1}, depth |-> 1, calls |-> MaxCalls - 1,
                track |-> TRUE,
                objects |-> {<<"Account">>},
                fields |-> {<<>>, <<FX>>},
                failing |-> {{}, {"Flow"}, {"ValidationRule", "ApexTrigger"},
                             {"ValidationRule", "Flow", "ApexTrigger"}}]

DepsNext ==
    \/ \E t \in Threads, o \in scope.objects, f \in scope.fields,
          failing \in scope.failing : AnalyzeDependencies(t, o, f, failing)
    \/ \E t \in Threads : ClearCache(t)
    \/ Tick

DepsSpec == DepsInit /\ [][DepsNext]_vars

\* Lists of at most MaxItems items of one byte each, at most one of them a
\* large one, chunked with page sizes below and above the halving threshold.
Items(n, large) ==
    [i \in 1..n |-> [id |-> i, size |-> IF i \in large THEN 2 * MaxItems ELSE 1]]

ChunkInit ==
    /\ InitState
    /\ scope = [threads |-> {T1}, depth |-> 1, calls |-> 1,
                track |-> FALSE,
                lists |-> {Items(n, large) :
                              n \in 0..MaxItems,
                              large \in {{}} \cup {{i} : i \in 1..MaxItems}},
                max_sizes |-> {MaxItems, 4 * MaxItems},
                page_sizes |-> {1, 4, HALVING_FLOOR + 1, MaxItems}]

ChunkNext ==
    \/ \E t \in Threads, data \in scope.lists, max_size \in scope.max_sizes,
          page_size \in scope.page_sizes :
          ChunkLargeResponse(t, data, max_size, page_size)
    \/ \E t \in Threads : ChunkStep(t)

ChunkSpec == ChunkInit /\ [][ChunkNext]_vars

\* The strings of at most MaxLen characters over an alphabet.
RECURSIVE Strings(_, _)
Strings(alphabet, n) ==
    IF n = 0 THEN {<<>>}
    ELSE Strings(alphabet, n - 1) \cup
         {Append(s, ch) : s \in Strings(alphabet, n - 1), ch \in alphabet}

\* One call of escape_soql_string with None or with a string of letters,
\* quotes, backslashes, null bytes and line ends.
EscapeInit ==
    /\ InitState
    /\ scope = [threads |-> {T1}, depth |-> 1, calls |-> 1,
                track |-> FALSE,
                values |-> {<<>>} \cup
                    {<<s>> : s \in Strings({"a", QUOTE, BACKSLASH, NUL, NEWLINE},
                                           MaxLen)}]

EscapeNext == \E t \in Threads, value \in scope.values : Escape(t, value)

EscapeSpec == EscapeInit /\ [][EscapeNext]_vars

\* Two threads whose wrapped functions call decorated functions and whose
\* connection factories call the pool.  A thread that can go on does: the
\* code it runs (get's counting, a wrapped function, a factory, the
\* registration of a connection) returns or raises.
ReentrantInit ==
    /\ InitState
    /\ scope = [threads |-> {T1, T2}, depth |-> MaxDepth, calls |-> MaxCalls - 1,
                track |-> FALSE,
                slots |-> {QR} \X {KA1},
                vals |-> {"v1"},
                ttls |-> {<<>>},
                pats |-> {},
                users |-> {U1}]

Continue(t) ==
    \/ GetCount(t)
    \/ \E v \in scope.vals : FuncReturn(t, v)
    \/ \E e \in Exceptions : FuncRaise(t, e)
    \/ \E created \in BOOLEAN : FactoryReturn(t, created)
    \/ FactoryRaise(t)
    \/ AddConnection(t)

ReentrantNext ==
    \/ \E t \in Threads, s \in scope.slots, ttl \in scope.ttls :
          CallCached(t, s[1], s[2], ttl)
    \/ \E t \in Threads, u \in scope.users, f \in BOOLEAN :
          CallGetConnection(t, u, f)
    \/ \E t \in Threads, u \in scope.users, s \in BOOLEAN :
          ReleaseConnection(t, u, s)
    \/ \E t \in Threads, u \in scope.users : UpdateConnection(t, u)
    \/ \E t \in Threads : Continue(t)

ReentrantSpec ==
    /\ ReentrantInit
    /\ [][ReentrantNext]_vars
    /\ \A t \in Threads : WF_vars(Continue(t))

\* ----------------------------------------------------------- the claims
\* An entry is live at time `t` when t is at most its creation time plus its TTL.
LiveAt(e, t) == t <= e.created_at + e.ttl

\* C1. Cache TTL: a value stored by set(category, key, v, ttl = t) at time T0
\* and still in the cache is what get returns at every time up to T0 + t, and
\* get returns absent at every later time.  The entry that set leaves holds v,
\* T0 and t; the entry that get finds decides what get returns.
TtlHonoured ==
    \A t \in Threads :
        /\ last[t].op = "set" =>
              /\ Has(CategoryCache(last[t].cat), last[t].key)
              /\ LET e == Lookup(CategoryCache(last[t].cat), last[t].key)
                 IN  /\ e.value = last[t].val
                     /\ e.created_at = last[t].time
                     /\ last[t].ttl # <<>> => e.ttl = last[t].ttl[1]
        /\ last[t].op = "get" /\ last[t].found # <<>> =>
              LET e == last[t].found[1]
              IN  IF last[t].time <= e.created_at + e.ttl
                  THEN last[t].ret = e.value
                  ELSE last[t].ret = None

\* A get at exactly T0 + t, t = 2 given to set, returned the value.
TtlBoundaryRead ==
    \E t \in Threads :
        /\ last[t].op = "get"
        /\ last[t].found # <<>>
        /\ last[t].found[1].ttl = 2
        /\ last[t].time = last[t].found[1].created_at + 2
        /\ last[t].ret = last[t].found[1].value
        /\ last[t].ret # None

\* The entry of `od` whose last access (the set that stored it, or its last
\* successful get) is the oldest.
LeastRecent(od) ==
    CHOOSE i \in 1..Len(od) : \A j \in 1..Len(od) : od[i].used <= od[j].used

\* C2. Cache LRU eviction: when a category holds MAX_SIZE live entries, a set of
\* a key that is not among them evicts exactly one entry, the one whose last
\* successful get, or else whose store, is the oldest.
LruEvictsLeastRecent ==
    [][\A t \in Threads :
          (last'[t].op = "set" /\ calls' = calls + 1) =>
              LET c == last'[t].cat
                  k == last'[t].key
                  od == CategoryCache(c)
              IN  (/\ Len(od) = MAX_SIZE
                   /\ k \notin Keys(od)
                   /\ \A i \in 1..Len(od) : LiveAt(od[i], now))
                  => Keys(cache'[c]) =
                        (Keys(od) \ {od[LeastRecent(od)].key}) \cup {k}]_vars

\* C3. Cache capacity bound: every category holds at most MAX_SIZE entries,
\* whatever operations were called.
CapacityBound ==
    \A c \in DOMAIN cache : Len(cache[c]) <= MAX_SIZE

\* A full category after an eviction, beside another category that holds entries.
CapacityReached ==
    /\ stats.evictions > 0
    /\ \E c \in DOMAIN cache, d \in DOMAIN cache :
          c # d /\ Len(cache[c]) = MAX_SIZE /\ Len(cache[d]) > 0

\* When, and with which TTL, the entry was stored that a call of a decorated
\* function left in the cache or found there.
StoredAt(r) == IF r.invoked THEN r.done ELSE r.found[1].created_at

StoredTtl(r) == IF r.invoked THEN TtlOf(r.cat, r.ttl) ELSE r.found[1].ttl

SameKey(r, q) == r.cat = q.cat /\ r.key = q.key

\* C4. Memoize fetch-once: of two calls in a row with the same key, the first
\* returning a value that is not None, the second returns that value without
\* invoking the wrapped function when it is made within the TTL of the stored
\* entry, and invokes the wrapped function when it is made later.
FetchOnce ==
    \A t \in Threads :
        (/\ prev[t].op = "cached"
         /\ last[t].op = "cached"
         /\ SameKey(prev[t], last[t])
         /\ ~prev[t].raised
         /\ prev[t].ret # None)
        => IF last[t].time <= StoredAt(prev[t]) + StoredTtl(prev[t])
           THEN ~last[t].invoked /\ last[t].ret = prev[t].ret
           ELSE last[t].invoked

\* A second call that was served from the cache, then a third one, after the
\* entry expired, that invoked the wrapped function again.
FetchedAgainAfterTtl ==
    \E t \in Threads :
        /\ prev[t].op = "cached"
        /\ ~prev[t].invoked
        /\ last[t].op = "cached"
        /\ SameKey(prev[t], last[t])
        /\ last[t].invoked
        /\ ~last[t].raised
        /\ last[t].found # <<>>

Idle == \A t \in Threads : stack[t] = <<>>

\* C5. Cache counters lose no update: every get counts once, as a hit exactly
\* when it found a live entry, so that with all calls completed the hit and
\* miss counters are the numbers of gets that hit and missed since the last
\* clear_all.
NoLostCount ==
    /\ Idle => stats.hits = gets.hit /\ stats.misses = gets.miss
    /\ \A t \in Threads :
          last[t].op = "get" =>
              (last[t].hit <=> /\ last[t].found # <<>>
                               /\ LiveAt(last[t].found[1], last[t].time))

\* Both threads completed a get, and gets have hit and missed.
BothThreadsCounted ==
    /\ Idle
    /\ \A t \in Threads : last[t].op = "get"
    /\ gets.hit > 0
    /\ gets.miss > 0

\* What a glob pattern of the model means for a key.
GlobMeans(k, p) ==
    CASE p = PAStar -> k # <<>> /\ Head(k) = "a"
      [] p = PStar -> TRUE
      [] OTHER -> k = p

\* C6. invalidate_pattern removes exactly the keys of the category that match
\* the pattern and returns their number; the other keys of the category (their
\* order and entries), the other categories and the counters stay as they were.
InvalidateExact ==
    [][\A t \in Threads :
          (last'[t].op = "invalidate_pattern" /\ calls' = calls + 1) =>
              LET c == last'[t].cat
                  p == last'[t].pat
                  od == CategoryCache(c)
                  kept == SelectSeq(od, LAMBDA e : ~GlobMeans(e.key, p))
              IN  /\ DOMAIN cache' = DOMAIN cache \cup {c}
                  /\ cache'[c] = kept
                  /\ last'[t].ret = Len(od) - Len(kept)
                  /\ \A d \in DOMAIN cache \ {c} : cache'[d] = cache[d]
                  /\ stats' = stats]_vars

\* Pattern a* took a1 and a2 and left b1, beside another category with entries.
InvalidatedAStar ==
    \E t \in Threads :
        /\ last[t].op = "invalidate_pattern"
        /\ last[t].pat = PAStar
        /\ last[t].ret = 2
        /\ Keys(CategoryCache(last[t].cat)) = {KB1}
        /\ \E d \in DOMAIN cache : d # last[t].cat /\ Len(cache[d]) > 0

\* C7. When the wrapped function raises, the wrapper hands the exception to its
\* caller as it is and stores nothing; the next call with the same key invokes
\* the wrapped function again.
RaisePropagates ==
    [][\A t \in Threads :
          /\ (InFunc(t) /\ stack'[t] = Rest(stack[t]) /\ seq' = seq) =>
                cache' = cache /\ stats' = stats
          /\ (last'[t].op = "cached" /\ last'[t].raised) =>
                last'[t].exc = last'[t].thrown /\ last'[t].invoked
          /\ (/\ prev'[t].op = "cached"
              /\ prev'[t].raised
              /\ ~prev'[t].nested
              /\ last'[t].op = "cached"
              /\ SameKey(prev'[t], last'[t])) => last'[t].invoked]_vars

\* A call that raised E1, then a call with the same key that invoked again.
RaisedThenInvokedAgain ==
    \E t \in Threads :
        /\ prev[t].op = "cached"
        /\ prev[t].raised
        /\ prev[t].exc = "E1"
        /\ ~prev[t].nested
        /\ last[t].op = "cached"
        /\ SameKey(prev[t], last[t])
        /\ last[t].invoked

\* C8. Re-entrancy without deadlock: every call a thread has begun, a call of a
\* decorated function whose wrapped function calls decorated functions and a
\* get_connection whose factory calls the pool among them, runs to completion;
\* no thread waits for ever for the cache's or the pool's lock, the one it
\* holds itself included.
CallsComplete ==
    \A t \in Threads : (stack[t] # <<>>) ~> (stack[t] = <<>>)

\* One thread completed a call whose wrapped function called a decorated
\* function, the other a get_connection whose factory called the pool and then
\* returned a connection, which was registered.
NestedCallsCompleted ==
    \E t \in Threads, u \in Threads :
        /\ last[t].op = "cached"
        /\ last[t].nested
        /\ last[t].invoked
        /\ last[u].op = "get_connection"
        /\ last[u].nested
        /\ last[u].ret # NoConnection
        /\ Has(connections, last[u].uid)

\* C9. A FAILED connection is never handed out: a get_connection that finds the
\* identity's entry in state FAILED does not return that entry's handle; it
\* returns None or, given a factory, a handle created during the call, and it
\* leaves no entry with the failed handle in the pool.
FailedNeverHandedOut ==
    \A t \in Threads :
        (/\ last[t].op = "get_connection"
         /\ last[t].found # <<>>
         /\ last[t].found[1].state = FAILED)
        => /\ last[t].ret # last[t].found[1].connection
           /\ \/ last[t].ret = NoConnection
              \/ last[t].factory /\ last[t].ret >= last[t].next
           /\ \A i \in 1..Len(connections) :
                 connections[i].connection # last[t].found[1].connection

\* A get_connection with a factory found a FAILED entry and returned the
\* connection the factory created, now registered under the identity.
FailedReplaced ==
    \E t \in Threads :
        /\ last[t].op = "get_connection"
        /\ last[t].found # <<>>
        /\ last[t].found[1].state = FAILED
        /\ last[t].ret # NoConnection
        /\ Has(connections, last[t].uid)
        /\ Lookup(connections, last[t].uid).connection = last[t].ret

\* A release_connection(identity, success = False) that was at least the third
\* one for the identity's entry since it was registered or last updated.
ThirdFailure(r) ==
    /\ r.op = "release_connection"
    /\ ~r.success
    /\ r.present
    /\ r.nfails >= 3

\* C10. Pool failure threshold: after the third release_connection(identity,
\* success = False) for a registered identity its entry is in state FAILED, and
\* a get_connection(identity) without a factory that follows returns None.
FailureThreshold ==
    \A t \in Threads :
        /\ ThirdFailure(last[t]) =>
              /\ Has(connections, last[t].uid)
              /\ Lookup(connections, last[t].uid).state = FAILED
        /\ (/\ ThirdFailure(prev[t])
            /\ last[t].op = "get_connection"
            /\ last[t].uid = prev[t].uid
            /\ ~last[t].factory)
           => last[t].ret = NoConnection

\* Exactly three failed releases of a registered identity, then a get_connection
\* without a factory that found the entry and returned None.
ThirdFailureThenAbsent ==
    \E t \in Threads :
        /\ ThirdFailure(prev[t])
        /\ prev[t].nfails = 3
        /\ last[t].op = "get_connection"
        /\ last[t].uid = prev[t].uid
        /\ ~last[t].factory
        /\ last[t].found # <<>>
        /\ last[t].ret = NoConnection

\* C11. In every reachable state of the pool an entry whose error counter is 3
\* or more is in state FAILED.
ErrorsForceFailed ==
    \A i \in 1..Len(connections) :
        connections[i].error_count >= 3 => connections[i].state = FAILED

\* The age of the entry a get_connection found, when the call was made.
FoundAge(r) == r.time - r.found[1].created_at

\* C12. A stale connection is not reused: a get_connection that finds an entry
\* older than max_age does not return that entry's handle; it returns None or,
\* given a factory, a handle created during the call, and it leaves no entry
\* with the stale handle in the pool.
StaleNotReused ==
    \A t \in Threads :
        (/\ last[t].op = "get_connection"
         /\ last[t].found # <<>>
         /\ FoundAge(last[t]) > MAX_AGE)
        => /\ last[t].ret # last[t].found[1].connection
           /\ \/ last[t].ret = NoConnection
              \/ last[t].factory /\ last[t].ret >= last[t].next
           /\ \A i \in 1..Len(connections) :
                 connections[i].connection # last[t].found[1].connection

\* A get_connection with a factory found an entry that was in use a moment
\* ago, not FAILED and older than max_age, and returned the connection the
\* factory created, now registered under the identity.
StaleReplaced ==
    \E t \in Threads :
        /\ last[t].op = "get_connection"
        /\ last[t].found # <<>>
        /\ last[t].found[1].state # FAILED
        /\ last[t].found[1].use_count > 0
        /\ FoundAge(last[t]) > MAX_AGE
        /\ last[t].ret # NoConnection
        /\ Has(connections, last[t].uid)
        /\ Lookup(connections, last[t].uid).connection = last[t].ret

\* The entry of the pool that was registered first among those present.
EarliestInserted(od) ==
    CHOOSE i \in 1..Len(od) : \A j \in 1..Len(od) : od[i].born <= od[j].born

\* C13. Pool capacity eviction order: a step that registers a connection for an
\* identity the pool does not hold, in a pool of max_connections entries,
\* removes the entry that was registered first among those present and no
\* other, whatever hits and updates that entry has had.
EvictsEarliestInserted ==
    [][\A u \in Users :
          (/\ ~Has(connections, u)
           /\ Has(connections', u)
           /\ Len(connections) = MAX_CONNECTIONS)
          => Keys(connections') =
                (Keys(connections) \ {connections[EarliestInserted(connections)].key})
                    \cup {u}]_vars

\* The entry registered first was handed out and then updated; the registration
\* of a third identity evicted it all the same.
EvictedAfterUpdate ==
    \E t \in Threads :
        /\ prev[t].op = "update_connection"
        /\ prev[t].present
        /\ prev[t].size = MAX_CONNECTIONS
        /\ last[t].op \in {"update_connection", "get_connection"}
        /\ last[t].uid # prev[t].uid
        /\ last[t].size = MAX_CONNECTIONS
        /\ Has(connections, last[t].uid)
        /\ ~Has(connections, prev[t].uid)
        /\ prev[t].found[1].use_count > 0
        /\ \A i \in 1..Len(connections) :
              prev[t].found[1].born < connections[i].born

\* C14. Pool size bound: the pool holds at most max_connections entries and at
\* most one entry per identity.
PoolSizeBound ==
    /\ Len(connections) <= MAX_CONNECTIONS
    /\ \A i \in 1..Len(connections), j \in 1..Len(connections) :
          connections[i].key = connections[j].key => i = j

\* A full pool took the connection of one identity more and is full.
PoolFullAfterEviction ==
    \E t \in Threads :
        /\ last[t].op \in {"update_connection", "get_connection"}
        /\ last[t].size = MAX_CONNECTIONS
        /\ last[t].found = <<>>
        /\ Has(connections, last[t].uid)
        /\ Len(connections) = MAX_CONNECTIONS

\* The entry a get_connection found was usable: not FAILED, not older than max_age.
FoundUsable(r) ==
    /\ r.found # <<>>
    /\ r.found[1].state # FAILED
    /\ FoundAge(r) <= MAX_AGE

\* C15. Factory failure: when get_connection misses and the factory raises, the
\* call returns None and raises nothing, the factory was called once, the
\* pool's error counter has grown by one and no entry is registered for the
\* identity; a call that finds a usable entry does not call the factory.
FactoryFailure ==
    [][\A t \in Threads :
          /\ (last'[t].op = "get_connection" /\ last'[t].raised /\ InFactory(t))
             => /\ last'[t].ret = NoConnection
                /\ last'[t].exc = None
                /\ last'[t].invoked = 1
                /\ ~FoundUsable(last'[t])
                /\ pstats'.errors = pstats.errors + 1
                /\ ~Has(connections', last'[t].uid)
                /\ connections' = connections
          /\ (last'[t].op = "get_connection" /\ FoundUsable(last'[t]))
             => /\ last'[t].invoked = 0
                /\ ~last'[t].raised
                /\ last'[t].ret = last'[t].found[1].connection]_vars

\* A factory raised in a call that had found and removed an entry, after a call
\* that found the entry usable and returned its handle.
FactoryFailedOnce ==
    \E t \in Threads :
        /\ prev[t].op = "get_connection"
        /\ FoundUsable(prev[t])
        /\ prev[t].factory
        /\ last[t].op = "get_connection"
        /\ last[t].uid = prev[t].uid
        /\ last[t].raised
        /\ last[t].found # <<>>
        /\ pstats.errors = 1

\* C16. update_connection(identity, handle, endpoint), whether or not the
\* identity had an entry, leaves an entry for the identity with the new handle,
\* error counter 0 and no last error, and adds one to the reconnection counter.
UpdateCountsReconnection ==
    [][\A t \in Threads :
          (last'[t].op = "update_connection" /\ calls' = calls + 1)
          => /\ Has(connections', last'[t].uid)
             /\ LET c == Lookup(connections', last'[t].uid)
                IN  /\ c.connection = last'[t].conn
                    /\ c.error_count = 0
                    /\ c.last_error = None
             /\ pstats'.reconnections = pstats.reconnections + 1]_vars

\* C17. Scoped acquisition always releases: however control leaves the scope of
\* the pool's context manager, release_connection was called once for the
\* identity: with success when the body completed, the entry then AVAILABLE;
\* with failure and the exception's text otherwise, the exception raised again.
ScopeAlwaysReleases ==
    \A t \in Threads :
        last[t].op = "connection" =>
            /\ last[t].released = 1
            /\ IF last[t].exit = Completes
               THEN /\ last[t].success
                    /\ last[t].raised = None
                    /\ Has(connections, last[t].uid) =>
                          Lookup(connections, last[t].uid).state = AVAILABLE
               ELSE /\ ~last[t].success
                    /\ last[t].error = Str(last[t].exit)
                    /\ last[t].raised = last[t].exit

\* C18. health_check classifies every entry exactly once: there is one detail
\* record per entry, in the pool's order, and healthy + unhealthy is the number
\* of entries; an entry that is FAILED or older than max_age, or for which the
\* probe raises, is unhealthy, and the entries after it are covered all the
\* same; the entries and the pool's counters are as they were.
HealthClassifiesAll ==
    [][\A t \in Threads :
          (last'[t].op = "health_check" /\ calls' = calls + 1) =>
              LET r == last'[t].ret
                  probe == last'[t].probe
                  n == Len(connections)
                  sick == {i \in 1..Len(r.details) :
                              r.details[i].status # "healthy"}
              IN  /\ Len(r.details) = n
                  /\ r.healthy + r.unhealthy = n
                  /\ r.unhealthy = Cardinality(sick)
                  /\ \A i \in 1..n :
                        /\ r.details[i].user_id = connections[i].key
                        /\ connections[i].state = FAILED => i \in sick
                        /\ now - connections[i].created_at > MAX_AGE => i \in sick
                        /\ (probe # <<>> /\ probe[1][connections[i].key] = "raise")
                              => i \in sick
                  /\ connections' = connections
                  /\ pstats' = pstats]_vars

\* The probe raised for the first of two entries and the second one was found
\* healthy.
ProbeRaisedScanWentOn ==
    \E t \in Threads :
        /\ last[t].op = "health_check"
        /\ Len(last[t].ret.details) = 2
        /\ last[t].ret.details[1].status = "error: probe"
        /\ last[t].ret.details[2].status = "healthy"
        /\ last[t].ret.healthy = 1
        /\ last[t].ret.unhealthy = 1

\* The number of matches a usage record lists, over its nine categories.
ListedMatches(u) ==
    Len(u.apex_classes) + Len(u.apex_triggers) + Len(u.flows)
    + Len(u.validation_rules) + Len(u.formula_fields) + Len(u.workflow_rules)
    + Len(u.page_layouts) + Len(u.email_templates) + Len(u.reports)

\* C19. Field-usage record invariant: in every record of a report of analyze,
\* total_usage is the sum of the lengths of the record's match lists, and
\* is_referenced is true exactly when total_usage is greater than 0.
UsageRecordInvariant ==
    \A t \in Threads :
        last[t].op = "analyze" =>
            \A i \in 1..Len(last[t].records) :
                LET u == last[t].records[i]
                IN  /\ u.total_usage = ListedMatches(u)
                    /\ u.is_referenced <=> u.total_usage > 0

\* A report on all fields in which one field is listed by an email template
\* and other components and another field by nothing.
UsedAndUnusedFields ==
    \E t \in Threads :
        /\ last[t].op = "analyze"
        /\ last[t].success
        /\ \E i, j \in 1..Len(last[t].records) :
              /\ last[t].records[i].email_templates # <<>>
              /\ last[t].records[i].total_usage >= 3
              /\ last[t].records[i].is_referenced
              /\ last[t].records[j].total_usage = 0
              /\ ~last[t].records[j].is_referenced

\* The names of the fields in the describe of the object.
DescribedNames == {Org.fields[i].name : i \in 1..Len(Org.fields)}

\* C20. Not-found field: analyze called with a field name (a name that is not
\* empty: the empty name, like None, asks for all fields) that is not among
\* the fields of the object returns a failure (success false, a not-found
\* error) and no usage record, and sends no category query: the call never
\* gets to the fetches, the describe is the only query it sent.
NotFoundFails ==
    \A t \in Threads :
        /\ (/\ last[t].op = "analyze"
            /\ FieldGiven(last[t].field_name)
            /\ last[t].field_name[1] \notin DescribedNames)
           => /\ ~last[t].success
              /\ last[t].error \in {"not found", "describe failed"}
              /\ last[t].records = <<>>
              /\ last[t].queries = <<Query("describe", 0)>>
        /\ (stack[t] # <<>> /\ Top(stack[t]).op = "analyze"
                            /\ FieldGiven(Top(stack[t]).field_name))
           => Top(stack[t]).field_name[1] \in DescribedNames

\* The object was described and does not have the field: a not-found failure.
NotFoundReturned ==
    \E t \in Threads :
        /\ last[t].op = "analyze"
        /\ last[t].field_name = <<FNone>>
        /\ ~last[t].success
        /\ last[t].error = "not found"

\* The list of a usage record that names the components of a category.
ListOf ==
    [ApexClass |-> "apex_classes", ApexTrigger |-> "apex_triggers",
     Flow |-> "flows", ValidationRule |-> "validation_rules",
     WorkflowRule |-> "workflow_rules", Layout |-> "page_layouts",
     Report |-> "reports", EmailTemplate |-> "email_templates"]

\* A call of analyze that got to the fetches and returned: its result.
Fetched(r) == r.op = "analyze" /\ Len(r.queries) > 1

\* C21. Category fault tolerance: when the query of a category (the triggers,
\* or any other one) raises, analyze returns a successful report in which every
\* field has an empty list for that category and, for every other category,
\* the matches of the report in which that fetch succeeded.  A call that got
\* to the fetches and stored no null text returns a successful report.
CategoryFaultTolerance ==
    \A t \in Threads :
        LET r == last[t]
        IN  Fetched(r) =>
              /\ ~Unsearchable(r.ws) => r.success
              /\ r.success =>
                   \A c \in DOMAIN ListOf :
                      ~r.faults[c].ok =>
                         LET repaired == [r.ws EXCEPT ![c] =
                                             FetchCategory(c, NoFault).ws]
                         IN  \A i \in 1..Len(r.records) :
                                LET u == r.records[i]
                                    v == UsageRecord(FieldsToAnalyze(r.field_name)[i],
                                                     repaired)
                                IN  /\ u[ListOf[c]] = <<>>
                                    /\ u.formula_fields = v.formula_fields
                                    /\ \A d \in DOMAIN ListOf \ {c} :
                                          u[ListOf[d]] = v[ListOf[d]]

\* The trigger query alone raised in a call for all fields: the report is
\* successful, no field has a trigger, and the field that a trigger and other
\* components use is listed by the other components.
TriggerFetchFailed ==
    \E t \in Threads :
        LET r == last[t]
        IN  /\ Fetched(r)
            /\ r.success
            /\ r.field_name = <<>>
            /\ \A c \in DOMAIN ListOf : r.faults[c].ok <=> c # "ApexTrigger"
            /\ \A i \in 1..Len(r.records) : r.records[i].apex_triggers = <<>>
            /\ UsageRecord(Org.fields[1], [r.ws EXCEPT !.ApexTrigger =
                   FetchCategory("ApexTrigger", NoFault).ws]).apex_triggers # <<>>
            /\ r.records[1].apex_classes # <<>>
            /\ r.records[1].email_templates # <<>>

\* C22. A failed category is empty: when the fetch of a category fails at any
\* point (its query raises, or a record part-way through the result cannot be
\* processed), the category's dict of the working set is empty while the
\* fields are matched, and no record of the report names a component of it.
FailedCategoryEmpty ==
    \A t \in Threads :
        /\ (stack[t] # <<>> /\ Top(stack[t]).op = "analyze"
                            /\ Top(stack[t]).pc = "match")
           => \A c \in DOMAIN ListOf :
                 FetchRaises(c, Top(stack[t]).faults[c]) => Top(stack[t]).ws[c] = <<>>
        /\ (Fetched(last[t]) /\ last[t].success)
           => \A c \in DOMAIN ListOf :
                 FetchRaises(c, last[t].faults[c]) =>
                    \A i \in 1..Len(last[t].records) :
                       last[t].records[i][ListOf[c]] = <<>>

\* The queries that the fetches of a call send, from what went wrong in each
\* fetch: the number of fields of the call has no part in it.
RECURSIVE FetchQueries(_, _, _)
FetchQueries(category, include_reports, faults) ==
    IF category = "match" THEN <<>>
    ELSE FetchCategory(category, faults[category]).queries
         \o FetchQueries(NextCategory(category, include_reports),
                         include_reports, faults)

\* The analyze call of thread t is in its matching pass.
Matching(t) ==
    stack[t] # <<>> /\ Top(stack[t]).op = "analyze" /\ Top(stack[t]).pc = "match"

\* C23. Fetch once, then match: in a call of analyze no field is matched
\* before the last category is fetched; a step of the matching pass sends no
\* query and leaves the working set as it is, up to the result of the call; and
\* the queries of a call are the describe and those of the fetches, the same
\* for one field and for all fields.
FetchOnceThenMatch ==
    [][\A t \in Threads :
          /\ (stack[t] # <<>> /\ Top(stack[t]).op = "analyze" /\ ~Matching(t))
             => Top(stack[t]).records = <<>>
          /\ Matching(t) =>
                LET f == Top(stack[t])
                    g == IF stack'[t] # <<>> THEN Top(stack'[t]) ELSE last'[t]
                IN  /\ g.queries = f.queries
                    /\ g.ws = f.ws
                    /\ f.queries = <<Query("describe", 0)>> \o
                          FetchQueries(Categories[1], f.include_reports, f.faults)
                    /\ stack'[t] # <<>> =>
                          /\ Matching(t)'
                          /\ Len(g.records) = Len(f.records) + 1]_vars

\* A call for all fields matched its last field after the others and returned
\* a report, having sent as many queries as a call for one field sends.
MatchedAllFieldsAfterFetch ==
    \E t \in Threads :
        /\ Fetched(last[t])
        /\ last[t].success
        /\ last[t].field_name = <<>>
        /\ Len(last[t].records) = Len(Org.fields)
        /\ last[t].include_reports
        /\ last[t].faults.Flow.failing = {1}
        /\ Len(last[t].queries) =
              1 + Len(FetchQueries(Categories[1], TRUE, last[t].faults))

\* The number of queries of kind `what` among the queries of a call.
Sent(queries, what) ==
    Cardinality({i \in 1..Len(queries) : queries[i].q = what})

\* C24. Report cost cap: a call of analyze sends no report query and no report
\* lookup when include_reports is false, and at most the limit of report
\* lookups when it is true, however many reports the listing returns and
\* however many of the lookups raise.
ReportCostCap ==
    \A t \in Threads :
        last[t].op = "analyze" =>
            /\ ~last[t].include_reports =>
                  /\ Sent(last[t].queries, "Report") = 0
                  /\ Sent(last[t].queries, "ReportDescribe") = 0
            /\ Sent(last[t].queries, "ReportDescribe") <= REPORT_LIMIT

\* The keys of a dict of the working set whose text has n as a substring.
KeysContaining(od, n) == KeysWhere(od, LAMBDA e : Contains(e.text, n))

\* C25. Matching rule: in a report an Apex class, a trigger, a workflow rule
\* (by its formula) or an email template is listed for a field exactly when
\* the field's name is a substring, case-sensitive, of the component's text in
\* the working set; a validation rule exactly when it is one of its formula,
\* message and name; a page layout exactly when its field list has an entry
\* equal to the field's name, or equal to it ignoring case.  Hence a field
\* listed by one Apex class and one layout and nothing else has total_usage 2.
MatchingRule ==
    \A t \in Threads :
        (last[t].op = "analyze" /\ last[t].success) =>
            \A i \in 1..Len(last[t].records) :
                LET u == last[t].records[i]
                    n == u.field_name
                    ws == last[t].ws
                IN  /\ u.apex_classes = KeysContaining(ws.ApexClass, n)
                    /\ u.apex_triggers = KeysContaining(ws.ApexTrigger, n)
                    /\ u.validation_rules = KeysWhere(ws.ValidationRule,
                          LAMBDA e : \/ Contains(e.formula, n)
                                     \/ Contains(e.error_msg, n)
                                     \/ Contains(e.name, n))
                    /\ u.workflow_rules = KeysContaining(ws.WorkflowRule, n)
                    /\ u.email_templates = KeysContaining(ws.EmailTemplate, n)
                    /\ u.page_layouts = KeysWhere(ws.Layout,
                          LAMBDA e : \E j \in 1..Len(e.names) :
                                        \/ e.names[j] = n
                                        \/ Lower(e.names[j]) = Lower(n))
                    /\ (/\ Len(u.apex_classes) = 1 /\ Len(u.page_layouts) = 1
                        /\ u.apex_triggers = <<>> /\ u.flows = <<>>
                        /\ u.validation_rules = <<>> /\ u.formula_fields = <<>>
                        /\ u.workflow_rules = <<>> /\ u.reports = <<>>
                        /\ u.email_templates = <<>>)
                       => u.total_usage = 2 /\ u.is_referenced

\* C26. analyze never raises to its caller: every call returns a result with a
\* success flag; when the connection or the describe of the object raises, or
\* the matching pass meets a text it cannot search, the result has success
\* false, the text of the error and no usage record; and a failure result
\* never carries usage records.
AnalyzeNeverRaises ==
    \A t \in Threads :
        last[t].op = "analyze" =>
            /\ "success" \in DOMAIN last[t]
            /\ "raised" \notin DOMAIN last[t]
            /\ last[t].success \in BOOLEAN
            /\ (~last[t].described \/ Unsearchable(last[t].ws)) => ~last[t].success
            /\ ~last[t].success => /\ last[t].error # None
                                  /\ last[t].records = <<>>
            /\ last[t].success => last[t].error = None

\* The matching pass met a null class body after all the fetches: the call
\* returned a failure result with the error.
UnexpectedErrorReturned ==
    \E t \in Threads :
        /\ last[t].op = "analyze"
        /\ last[t].described
        /\ Unsearchable(last[t].ws)
        /\ Len(last[t].queries) > 1
        /\ ~last[t].success
        /\ last[t].error = "TypeError"

\* The issue type of a request as the routing sees it: lowered and stripped.
Normalised(r) == Strip(Lower(r.issue_type))

\* The request asks for the type to be found: auto or detect.
Unspecified(r) == Normalised(r) = AUTO \/ Normalised(r) = DETECT

\* C27. Diagnostic routing: the detected scenario gives the issue type only
\* when the caller's type is auto or detect, and then the analyzer is that of
\* the scenario's type; for any other type the analyzer is that of the list
\* which names the caller's type, the same whatever the description matches;
\* and a type that no list names, auto and detect without a detected scenario
\* among them, goes to the generic diagnosis.
DiagnosticRouting ==
    \A t \in Threads :
        last[t].op = "diagnose" =>
            LET r == last[t]
            IN  /\ (Unspecified(r) /\ r.detected # <<>>) =>
                      \E i \in 1..Len(Routes) :
                         /\ r.detected[1].issue_type \in Routes[i].types
                         /\ r.analyzer = Routes[i].analyzer
                /\ ~Unspecified(r) =>
                      /\ \A i \in 1..Len(Routes) :
                            Normalised(r) \in Routes[i].types
                               => r.analyzer = Routes[i].analyzer
                      /\ \A u \in Threads :
                            (last[u].op = "diagnose"
                             /\ Normalised(last[u]) = Normalised(r))
                            => last[u].analyzer = r.analyzer
                /\ (Normalised(r) \notin RoutedTypes
                    /\ ~(Unspecified(r) /\ r.detected # <<>>))
                   => r.analyzer = "_generic_diagnosis"

\* Two requests whose descriptions match the flow scenario: the one with issue
\* type trigger went to the trigger diagnosis, the one with " AUTO " to the
\* flow diagnosis.
DetectedOnlyForAuto ==
    /\ last[T1].op = "diagnose"
    /\ last[T2].op = "diagnose"
    /\ last[T1].matches = {"flow_null_handling"}
    /\ last[T2].matches = {"flow_null_handling"}
    /\ Normalised(last[T1]) = <<"t", "r", "i", "g", "g", "e", "r">>
    /\ last[T1].analyzer = "_diagnose_trigger_issue"
    /\ last[T2].issue_type = <<" ", "A", "U", "T", "O", " ">>
    /\ last[T2].analyzer = "_diagnose_flow_issue"

\* C28. No state from one diagnose request to the next but the Global Cache
\* and the Connection Pool: a diagnose request that follows
\* GlobalCache.clear_all() fetches from the client every metadata item it
\* needs, whatever the requests before fetched.
FetchesAgainAfterClearAll ==
    [][\A t \in Threads :
          (last[t].op = "clear_all" /\ last'[t].op = "diagnose")
             => last'[t].served = <<>>]_vars

\* The number of backslashes that end the string s.
RECURSIVE TrailingBackslashes(_)
TrailingBackslashes(s) ==
    IF s = <<>> \/ s[Len(s)] # BACKSLASH THEN 0
    ELSE 1 + TrailingBackslashes(SubSeq(s, 1, Len(s) - 1))

\* C29. escape_soql_string makes quotes harmless: in the string it returns,
\* every single quote has an odd number of backslashes right before it, so the
\* quote is escaped and cannot end a quoted literal; for O'Reilly that is one
\* backslash before the quote.
QuotesEscaped ==
    \A t \in Threads :
        last[t].op = "escape_soql_string" =>
            \A i \in 1..Len(last[t].ret) :
                last[t].ret[i] = QUOTE =>
                    TrailingBackslashes(SubSeq(last[t].ret, 1, i - 1)) % 2 = 1

\* C30. Memoize fetch-once for every result, None among them: of two calls in
\* a row with the same key, the first returning None from the wrapped
\* function, the second, made within the TTL of the stored entry, returns None
\* without invoking the wrapped function.
FetchOnceForNone ==
    \A t \in Threads :
        (/\ prev[t].op = "cached"
         /\ last[t].op = "cached"
         /\ SameKey(prev[t], last[t])
         /\ ~prev[t].raised
         /\ prev[t].invoked
         /\ prev[t].ret = None
         /\ last[t].time <= StoredAt(prev[t]) + StoredTtl(prev[t]))
        => ~last[t].invoked /\ last[t].ret = None

\* The lookup of a call of a decorated function found no live entry.
SawNoLiveEntry(r) == r.found = <<>> \/ ~LiveAt(r.found[1], r.time)

\* Two calls overlap when each one's lookup is made by the time the other one
\* completes.
Overlap(r, q) == r.time <= q.done /\ q.time <= r.done

\* C31. Memoize under concurrency: of two threads whose calls of the same
\* decorated function with the same key overlap, each lookup finding no live
\* entry, exactly one invokes the wrapped function and both return one result.
MemoizeOnceAcrossThreads ==
    \A t, u \in Threads :
        (/\ t # u
         /\ last[t].op = "cached"
         /\ last[u].op = "cached"
         /\ SameKey(last[t], last[u])
         /\ ~last[t].raised
         /\ ~last[u].raised
         /\ SawNoLiveEntry(last[t])
         /\ SawNoLiveEntry(last[u])
         /\ Overlap(last[t], last[u]))
        => /\ ~(last[t].invoked /\ last[u].invoked)
           /\ last[t].ret = last[u].ret

\* C32. Overwrite does not evict: a set of a key that is present in a category
\* holding exactly MAX_SIZE entries leaves the category's keys as they were,
\* stores the value and the TTL under the key, and leaves the eviction counter
\* as it was.
OverwriteDoesNotEvict ==
    [][\A t \in Threads :
          (last'[t].op = "set" /\ calls' = calls + 1) =>
              LET c == last'[t].cat
                  k == last'[t].key
                  od == CategoryCache(c)
              IN  (Len(od) = MAX_SIZE /\ k \in Keys(od))
                  => /\ Keys(cache'[c]) = Keys(od)
                     /\ Lookup(cache'[c], k).value = last'[t].val
                     /\ Lookup(cache'[c], k).ttl = TtlOf(c, last'[t].ttl)
                     /\ stats'.evictions = stats.evictions]_vars

\* C33. A reconnected handle is reusable: a get_connection that follows an
\* update_connection of an existing entry of the same identity, less than
\* MAX_AGE after it, returns the handle the update stored, does not call a
\* factory and leaves the entry registered, however old the entry was.
ReconnectedHandleReusable ==
    \A t \in Threads :
        (/\ prev[t].op = "update_connection"
         /\ prev[t].present
         /\ last[t].op = "get_connection"
         /\ last[t].uid = prev[t].uid
         /\ last[t].found # <<>>
         /\ last[t].time - last[t].found[1].last_used < MAX_AGE)
        => /\ last[t].ret = prev[t].conn
           /\ last[t].invoked = 0
           /\ Has(connections, last[t].uid)

\* A thread holds the entry of an identity: the last thing it did was a
\* get_connection that returned the handle the entry has.
Holds(t, c) == Got(t, c.key) /\ last[t].ret = c.connection

\* C34. cleanup_idle_connections removes no connection that is still held: an
\* entry whose handle some thread got from get_connection and has not released
\* since is registered after every call of cleanup_idle_connections.
CleanupSparesHeld ==
    [][\A u \in Threads :
          (last'[u].op = "cleanup_idle_connections" /\ calls' = calls + 1) =>
              \A i \in 1..Len(connections) :
                  (\E t \in Threads \ {u} : Holds(t, connections[i]))
                  => Has(connections', connections[i].key)]_vars

\* The entry `c` was registered after the handle `h` was handed out: handles
\* are numbered as they are created, and `born` is the one an entry was
\* registered with.
RegisteredAfter(c, h) == c.born > h

\* C35. A release only affects the connection that was handed out: when the
\* entry registered under the identity was registered after the caller got
\* its handle, the caller's release_connection(identity, success=False)
\* leaves that entry as it was.
ReleaseOnlyOwnConnection ==
    [][\A t \in Threads :
          (/\ last'[t].op = "release_connection"
           /\ calls' = calls + 1
           /\ ~last'[t].success
           /\ Got(t, last'[t].uid)
           /\ Has(connections, last'[t].uid)
           /\ RegisteredAfter(Lookup(connections, last'[t].uid), last[t].ret))
          => Lookup(connections', last'[t].uid)
                = Lookup(connections, last'[t].uid)]_vars

\* A call of get_connection_pool during which the pool was not reset.
Unreset(r) == r.op = "get_connection_pool" /\ r.resets = r.done

\* C36. Pool singleton under races: every call of get_connection_pool returns
\* a pool, whatever calls of get_connection_pool and reset_connection_pool
\* run beside it, and calls between which no reset was made return the same
\* pool.
PoolSingleton ==
    /\ \A t \in Threads :
          last[t].op = "get_connection_pool" => last[t].ret # <<>>
    /\ \A t, u \in Threads :
          (Unreset(last[t]) /\ Unreset(last[u]) /\ last[t].done = last[u].done)
          => last[t].ret = last[u].ret

\* The names of the components of a category whose stored text is null.
NullNamed(ws, c) == {ws[c][i].key : i \in {j \in 1..Len(ws[c]) : ws[c][j].text = NullText}}

\* C37. A null text is empty text: a call of analyze that stored a null body or
\* formula returns a successful report, in which no field lists the component
\* whose text is null.
NullTextIsEmpty ==
    \A t \in Threads :
        (Fetched(last[t]) /\ Unsearchable(last[t].ws))
        => /\ last[t].success
           /\ \A i \in 1..Len(last[t].records) :
                 \A c \in {"ApexClass", "ApexTrigger", "WorkflowRule"} :
                     \A j \in 1..Len(last[t].records[i][ListOf[c]]) :
                         last[t].records[i][ListOf[c]][j]
                             \notin NullNamed(last[t].ws, c)

\* C38. A partial dependency result is cached like a complete one: after a
\* dependency analysis that made its lookups, some of them failing, the next
\* analysis of the same field returns the same result without a lookup when
\* it is made less than CACHE_TTL later, and makes all the lookups when it is
\* made CACHE_TTL later or more.
PartialDependenciesCached ==
    \A t \in Threads :
        (/\ prev[t].op = "dependencies"
         /\ last[t].op = "dependencies"
         /\ prev[t].key # <<>>
         /\ last[t].key = prev[t].key
         /\ prev[t].lookups # <<>>
         /\ prev[t].failing # {})
        => IF last[t].time - prev[t].time < CACHE_TTL
           THEN /\ last[t].lookups = <<>>
                /\ last[t].depended_by = prev[t].depended_by
           ELSE last[t].lookups = DependencyLookups

\* A result without the flows, whose lookup failed, was served again from the
\* cache at a later time, to a call whose lookups would all have succeeded.
PartialResultServedAgain ==
    \E t \in Threads :
        /\ prev[t].op = "dependencies"
        /\ prev[t].lookups # <<>>
        /\ prev[t].failing = {"Flow"}
        /\ last[t].op = "dependencies"
        /\ last[t].key = prev[t].key
        /\ last[t].failing = {}
        /\ last[t].time > prev[t].time
        /\ last[t].lookups = <<>>
        /\ Len(last[t].depended_by) = Len(Org.ValidationRule) + Len(Org.ApexTrigger)

\* The data of the chunks, one after the other.
RECURSIVE Concatenated(_)
Concatenated(chunks) ==
    IF chunks = <<>> THEN <<>>
    ELSE Head(chunks).data \o Concatenated(Tail(chunks))

\* C39. chunk_large_response loses and repeats nothing: the data of the chunks
\* it returns, one after the other, are the list it was given, also when the
\* page size was halved on a page after the first.
ChunksAreTheList ==
    \A t \in Threads :
        last[t].op = "chunk_large_response" =>
            Concatenated(last[t].chunks) = last[t].data

====
